---- MODULE Spec2Model ----
(***************************************************************************)
(* CAreaFitter (src/areafit.h): the rectangle packing search.              *)
(*                                                                         *)
(* The model follows one call of CAreaFitter::fitAreas from its entry to   *)
(* its return.  The search procedure fitUnfittedAreas is a state machine   *)
(* over an explicit stack in the source; the model keeps that machine:     *)
(* pc is the position in the code, and every action is one straight-line   *)
(* piece of the code between two positions.                                *)
(*                                                                         *)
(* Index conventions.  C arrays are 0-based, TLA+ sequences 1-based: the   *)
(* C element X[i] is X[i + 1] here.  Values the caller sees (OutImage of   *)
(* an area) keep their 0-based C value.  A pointer into the Areas array is *)
(* the 1-based index of the element, the pointer to InitArea is 0, and     *)
(* NULL is -1.  A pointer to a COutArea is a node number: 0 is             *)
(* BaseOutAreas[0] (the "initial" area fd->OutAreas), i in                 *)
(* 1..MinOutImageCount is BaseOutAreas[i], and NewOutAreaPtr(d, k) is      *)
(* Stack[d].NewOutAreas[k].                                                *)
(*                                                                         *)
(* All sizes in the model are far below 2^31, so no int operation of the   *)
(* source overflows within the bounds.                                     *)
(***************************************************************************)
EXTENDS Integers, Sequences, FiniteSets, TLC

\* ------------------------------------------------------------------ bounds
MaxAreas == 3          \* at most this many input areas
MaxDim == 2            \* area Width/Height and the image limits are in 0..MaxDim
MaxMinOutImageCount == 2  \* MinOutImageCount is in 1..MaxMinOutImageCount
MaxFitCalls == 3       \* small FitCallsLimit values are 0..MaxFitCalls
SmallOutImageSize == 2 \* the small value of aMaxOutImageSize
StaleOut == 7          \* OutImage/OutX/OutY of an input area before the call
ScaleFactor == 2       \* the factor of a scaled second call
SeedDim == 3           \* Width and Height of a caller-supplied output image

\* ------------------------------------------------------- program constants
NoBestGlobal == 2147483647   \* 0x7FFFFFFF
NoBestLocal == 2147483646    \* 0x7FFFFFFE
FitCallsSlice == 512
NULL == -1

VARIABLES
    pc,                 \* position in the code
    \* --- the caller's side of fitAreas
    AreasToFit,         \* CArray< CFitArea >& AreasToFit
    OutImages,          \* CArray< COutImage >& OutImages
    aMaxOutImageWidth, aMaxOutImageHeight,
    aMaxOutImageSize,   \* by-value parameter, raised by fitAreas
    MinOutImageCount, FitCallsLimit,
    FitQuality,         \* double& FitQuality, as the fraction num/den
    result,             \* the value fitAreas returned
    MinOutSize,         \* local of fitAreas
    \* --- CGlobals aGlobals
    Globals,
    \* --- CFitData FitData
    fd,                 \* OutImages, OutImageCount, OutSize, BestOutSize, BestOutImageCount
    OutAreaNodes,       \* every COutArea object: BaseOutAreas and Stack[d].NewOutAreas
    \* --- the CAreaFitter object
    MaxOutImageSize,    \* member, the raised aMaxOutImageSize
    FitCallsLeft,       \* member, the local slice of the budget
    Areas,              \* member, the Fitter's own copy of the sorted areas
    AreaNext,           \* the Next field of InitArea (0) and of Areas[i] (i)
    Stack, Depth,       \* the evaluation stack and its depth; s is Stack[Depth]
    Area, OutArea,      \* locals of fitUnfittedAreas
    \* --- history, not program state
    AreasIn,            \* AreasToFit as passed in
    OutImagesIn,        \* OutImages as passed in
    aMaxOutImageSizeIn, \* aMaxOutImageSize as passed in
    firstCall,          \* what an earlier call of fitAreas was given and returned
    attempts,           \* number of executions of line 1493 (FitCallsLeft--)
    trialStart,         \* per frame: the packing state when its last trial began
    \* --- a Fitter that is not running
    others              \* the CAreaFitter objects (with their CFitData) of the
                        \* threads that are not running now; none in fitAreas

callerVars == <<AreasToFit, OutImages, aMaxOutImageWidth, aMaxOutImageHeight,
                aMaxOutImageSize, MinOutImageCount, FitCallsLimit, FitQuality,
                result, MinOutSize>>
fitterVars == <<MaxOutImageSize, FitCallsLeft, Areas, AreaNext, Stack, Depth,
                Area, OutArea>>
histVars == <<AreasIn, OutImagesIn, aMaxOutImageSizeIn, firstCall>>
vars == <<pc, callerVars, Globals, fd, OutAreaNodes, fitterVars, histVars, attempts,
          trialStart, others>>

\* ------------------------------------------------------------ value helpers
Max(a, b) == IF a > b THEN a ELSE b
Min(a, b) == IF a < b THEN a ELSE b

RECURSIVE SumSeq(_)
SumSeq(q) == IF q = <<>> THEN 0 ELSE Head(q) + SumSeq(Tail(q))

\* struct CFitArea without its Next field (kept in AreaNext)
CFitArea(o, w, h, oi, ox, oy) ==
    [Object |-> o, Width |-> w, Height |-> h, OutImage |-> oi, OutX |-> ox, OutY |-> oy]

\* struct COutImage
COutImage(w, h, sz) == [Width |-> w, Height |-> h, Size |-> sz]

\* struct COutArea
COutArea(oi, x, y, w, h, nx) ==
    [OutImage |-> oi, x |-> x, y |-> y, Width |-> w, Height |-> h, Next |-> nx]

\* trialStart of a frame that has tried no region yet
NoTrial == [OutAreas |-> <<>>, OutImages |-> <<>>, OutSize |-> -1, OutImageCount |-> -1]

\* &Stack[ d ].NewOutAreas[ k ]
NewOutAreaPtr(d, k) == MinOutImageCount + 1 + 3 * d + k

\* a CFitAreaStackItem whose fields were never written
BlankStackItem ==
    [CodeLoc |-> 0, Area |-> NULL, PrevArea |-> NULL,
     PrevNewOutAreas |-> <<NULL, NULL>>, OutArea |-> NULL, PrevOutArea |-> NULL,
     OutAreasTried |-> 0, OutAreaRemainRight |-> 0, OutAreaRemainBottom |-> 0,
     WasOutImageAdded |-> FALSE, DoOutImageRestore |-> FALSE,
     OutImageSave |-> COutImage(0, 0, 0), OutSizeSave |-> 0,
     MinAreaWidth |-> 0, MinAreaHeight |-> 0, c |-> 0, c1 |-> 0]

\* ------------------------------------------------------------------ sorting
Perms(n) == {p \in [1..n -> 1..n] : \A i, j \in 1..n : i # j => p[i] # p[j]}

\* Mutant of FitAreasInSortFn: the areas are compared by Height.
FitAreasInSortFn_ByHeight(a1, a2) == a2.Height - a1.Height

\* FitAreasInSortFn( a, b ): descending Width
FitAreasInSortFn(a1, a2) == a2.Width - a1.Width

\* Mutant of FitAreasOutSortFn: the comparison of OutX is missing.
FitAreasOutSortFn_NoOutX(a1, a2) ==
    IF a1.OutImage > a2.OutImage THEN 1
    ELSE IF a1.OutImage < a2.OutImage THEN -1
    ELSE a1.OutY - a2.OutY

\* FitAreasOutSortFn( a, b ): ascending (OutImage, OutX, OutY)
FitAreasOutSortFn(a1, a2) ==
    IF a1.OutImage > a2.OutImage THEN 1
    ELSE IF a1.OutImage < a2.OutImage THEN -1
    ELSE IF a1.OutX > a2.OutX THEN 1
    ELSE IF a1.OutX < a2.OutX THEN -1
    ELSE a1.OutY - a2.OutY

\* qsort(): every arrangement of q the comparison function accepts.  The C
\* library leaves the order of elements that compare equal unspecified.
QSortIn(q) ==
    {r \in {[i \in 1..Len(q) |-> q[p[i]]] : p \in Perms(Len(q))} :
        \A i, j \in 1..Len(q) : i < j => FitAreasInSortFn(r[i], r[j]) <= 0}
QSortOut(q) ==
    {r \in {[i \in 1..Len(q) |-> q[p[i]]] : p \in Perms(Len(q))} :
        \A i, j \in 1..Len(q) : i < j => FitAreasOutSortFn(r[i], r[j]) <= 0}

\* ---------------------------------------------------------------- the inputs
\* firstCall while no call of fitAreas has returned
NoCall ==
    [kind |-> "none", result |-> FALSE, order |-> <<>>, AreasIn |-> <<>>,
     AreasToFit |-> <<>>, OutImages |-> <<>>, FitCallsLimit |-> 0,
     sizeFactor |-> 0]

Dims == 0..MaxDim
Limits == 1..MaxDim
OutImageSizes == {SmallOutImageSize, NoBestGlobal}
\* the caller's OutImages: empty, or one preseeded image
SeedOutImages == {<<>>, <<COutImage(SeedDim, SeedDim, SeedDim * SeedDim)>>}
\* a budget no search of the model uses up; its first refill takes a full slice
AmpleFitCalls == FitCallsSlice + 1

\* The parameter combinations of the calls:
\*   - every combination of the width and height limits, with no size limit
\*     and an ample budget, so that the search runs until the root frame is
\*     exhausted;
\*   - with the widest limits and an ample budget, both size limits and every
\*     seed count;
\*   - with the widest limits and no size limit, every small budget and seed
\*     count, with and without a caller-supplied output image.
Scenarios ==
    [W : Limits, H : Limits, Size : {NoBestGlobal}, MinCount : {1},
     Budget : {AmpleFitCalls}, Seed : {<<>>}]
    \cup
    [W : {MaxDim}, H : {MaxDim}, Size : OutImageSizes,
     MinCount : 1..MaxMinOutImageCount, Budget : {AmpleFitCalls}, Seed : {<<>>}]
    \cup
    [W : {MaxDim}, H : {MaxDim}, Size : {NoBestGlobal},
     MinCount : 1..MaxMinOutImageCount, Budget : 0..MaxFitCalls, Seed : SeedOutImages]

\* The input lists: every list of at most MaxAreas areas with sizes in Dims,
\* up to the order of the list (the lists are ascending in (Width, Height), so
\* that the pre-sort has to reverse them).  Object is the position in the list.
\* The lists of MaxAreas areas hold no area of zero Width or Height.
AreaKey(a) == a.Width * (MaxDim + 2) + a.Height
InputAreas ==
    UNION {
        {[i \in 1..n |-> CFitArea(i, w[i], h[i], StaleOut, StaleOut, StaleOut)] :
            w \in [1..n -> Dims], h \in [1..n -> Dims]} : n \in 0..MaxAreas}
Inputs ==
    {q \in InputAreas :
        /\ \A i \in 1..(Len(q) - 1) : AreaKey(q[i]) <= AreaKey(q[i + 1])
        /\ Len(q) = MaxAreas => \A i \in 1..Len(q) : q[i].Width > 0 /\ q[i].Height > 0}

\* The state at the entry of fitAreas (lines 1085-1089), called with the given
\* arguments
InitialState(areas, imgs, W, H, size, minCount, limit) ==
    /\ pc = "fitAreas"
    /\ AreasToFit = areas
    /\ OutImages = imgs
    /\ aMaxOutImageWidth = W
    /\ aMaxOutImageHeight = H
    /\ aMaxOutImageSize = size
    /\ MinOutImageCount = minCount
    /\ FitCallsLimit = limit
    /\ FitQuality = [num |-> 0, den |-> 0, valid |-> FALSE]
    /\ result = "none"
    /\ MinOutSize = 0
    /\ Globals = [FitCallsLimit |-> 0, FitCallsLeft |-> 0, BestOutSize |-> 0,
                  BestOutImageCount |-> 0, BestFittedAreas |-> <<>>,
                  BestOutImages |-> <<>>]
    /\ fd = [OutImages |-> <<>>, OutImageCount |-> 0, OutSize |-> 0,
             BestOutSize |-> 0, BestOutImageCount |-> 0]
    /\ OutAreaNodes = <<>>
    /\ MaxOutImageSize = 0
    /\ FitCallsLeft = 0
    /\ Areas = <<>>
    /\ AreaNext = <<>>
    /\ Stack = <<>>
    /\ Depth = -1
    /\ Area = NULL
    /\ OutArea = NULL
    /\ AreasIn = areas
    /\ OutImagesIn = imgs
    /\ aMaxOutImageSizeIn = size
    /\ firstCall = NoCall
    /\ attempts = 0
    /\ trialStart = <<>>
    /\ others = <<>>

Init ==
    \E areas \in Inputs, sc \in Scenarios :
        \* a search with several seed images and an ample budget is run for
        \* the lists shorter than MaxAreas
        /\ (sc.MinCount > 1 /\ sc.Budget = AmpleFitCalls) => Len(areas) < MaxAreas
        /\ InitialState(areas, sc.Seed, sc.W, sc.H, sc.Size, sc.MinCount, sc.Budget)

\* The call of src/example.cpp (lines 7-29): four areas, limits 300 x 300, no
\* size limit, one seed image, 10000 attempts
ExampleLimit == 300
ExampleFitCalls == 10000
ExampleAreas ==
    <<CFitArea(1, 50, 30, StaleOut, StaleOut, StaleOut),
      CFitArea(2, 250, 60, StaleOut, StaleOut, StaleOut),
      CFitArea(3, 30, 260, StaleOut, StaleOut, StaleOut),
      CFitArea(4, 80, 80, StaleOut, StaleOut, StaleOut)>>
InitExample ==
    InitialState(ExampleAreas, <<>>, ExampleLimit, ExampleLimit, NoBestGlobal, 1,
                 ExampleFitCalls)

\* ------------------------------------------------------------------ fitAreas
\* Mutant of SingleAreaOutImage: Size is left unset (zero).
SingleAreaOutImage_NoSize(a) == COutImage(a.Width, a.Height, 0)

\* lines 1100-1103: the output image of a single area
SingleAreaOutImage(a) == COutImage(a.Width, a.Height, a.Width * a.Height)

\* lines 1091-1112: fewer than two areas, no search
fitAreasTrivial ==
    /\ pc = "fitAreas"
    /\ Len(AreasToFit) < 2
    /\ IF Len(AreasToFit) = 1
       THEN /\ AreasToFit' = [AreasToFit EXCEPT ![1].OutImage = 0, ![1].OutX = 0,
                                                ![1].OutY = 0]
            /\ OutImages' = <<SingleAreaOutImage(AreasToFit[1])>>
       ELSE /\ OutImages' = <<>>
            /\ UNCHANGED AreasToFit
    /\ FitQuality' = [num |-> 100, den |-> 1, valid |-> TRUE]
    /\ result' = TRUE
    /\ pc' = "done"
    /\ UNCHANGED <<aMaxOutImageWidth, aMaxOutImageHeight, aMaxOutImageSize,
                   MinOutImageCount, FitCallsLimit, MinOutSize, Globals, fd,
                   OutAreaNodes, fitterVars, histVars, attempts, trialStart,
                   others>>

\* Mutant of RaiseMaxOutImageSize: the size limit is not raised to the
\* largest area.
RaiseMaxOutImageSize_None(q, m) == m

\* lines 1141-1152: the raised aMaxOutImageSize and MinOutSize
RECURSIVE RaiseMaxOutImageSize(_, _)
RaiseMaxOutImageSize(q, m) ==
    IF q = <<>> THEN m
    ELSE RaiseMaxOutImageSize(Tail(q),
            IF m < Head(q).Width * Head(q).Height
            THEN Head(q).Width * Head(q).Height ELSE m)
SumAreaSizes(q) == SumSeq([i \in 1..Len(q) |-> q[i].Width * q[i].Height])

\* lines 1160-1167: FitData.OutImages at the start of a search
InitialOutImages(count) == [i \in 1..count |-> COutImage(0, 0, 0)]

\* lines 1175-1186: the free region of seed image i (0-based), given
\* FitData.OutImages[ i ]
SeedOutArea(i, img, nx) ==
    COutArea(i, 0, 0,
             IF img.Width = 0 THEN aMaxOutImageWidth ELSE img.Width,
             IF img.Height = 0 THEN aMaxOutImageHeight ELSE img.Height, nx)

\* lines 1169-1189: BaseOutAreas linked into the initial chain, and the
\* NewOutAreas of the Stack items, not yet written
InitialOutAreaNodes(n, imgs) ==
    [k \in 0..(MinOutImageCount + 3 * n) |->
        IF k = 0 THEN COutArea(0, 0, 0, 0, 0, IF MinOutImageCount > 0 THEN 1 ELSE NULL)
        ELSE IF k <= MinOutImageCount
             THEN SeedOutArea(k - 1, imgs[k], IF k < MinOutImageCount THEN k + 1 ELSE NULL)
             ELSE COutArea(0, 0, 0, 0, 0, NULL)]

\* lines 1269-1279 (constructor): InitArea -> Areas[0] -> ... -> NULL
InitialAreaNext(n) == [i \in 0..n |-> IF i < n THEN i + 1 ELSE NULL]

\* lines 1428-1434: pushStack()
pushStack(stack, depth, areaNext) ==
    [stack EXCEPT ![depth + 1].Area = areaNext[0], ![depth + 1].PrevArea = 0]

\* The Objects of a list of areas, in the order of the list
Objects(q) == [i \in 1..Len(q) |-> q[i].Object]

\* lines 1114-1115: qsort is a function of the array it is given.  A second
\* call whose list compares like that of the first call (the same list, or the
\* same list with every Width multiplied by one factor) is sorted into the
\* same order.
SortsAsBefore(sorted) ==
    firstCall.kind \in {"budget", "scaled"} => Objects(sorted) = firstCall.order

\* lines 1114-1202: two or more areas; everything up to the call of
\* fitUnfittedAreas, for the Fitter that runs it
fitAreasSetUp ==
    /\ pc = "fitAreas"
    /\ Len(AreasToFit) >= 2
    /\ \E sorted \in QSortIn(AreasToFit) :
        LET n == Len(sorted)
            imgs == InitialOutImages(MinOutImageCount)
            raised == RaiseMaxOutImageSize(sorted, aMaxOutImageSize)
            next0 == InitialAreaNext(n)
        IN  /\ SortsAsBefore(sorted)
            /\ AreasToFit' = sorted
            /\ Globals' = [FitCallsLimit |-> FitCallsLimit,
                           FitCallsLeft |-> FitCallsLimit,
                           BestOutSize |-> NoBestGlobal,
                           BestOutImageCount |-> NoBestGlobal,
                           BestFittedAreas |-> <<>>, BestOutImages |-> <<>>]
            /\ aMaxOutImageSize' = raised
            /\ MinOutSize' = SumAreaSizes(sorted)
            /\ fd' = [OutImages |-> imgs, OutImageCount |-> MinOutImageCount,
                      OutSize |-> 0, BestOutSize |-> NoBestLocal,
                      BestOutImageCount |-> NoBestGlobal]
            /\ OutAreaNodes' = InitialOutAreaNodes(n, imgs)
            /\ MaxOutImageSize' = raised
            /\ FitCallsLeft' = 0
            /\ Areas' = sorted
            /\ AreaNext' = next0
            /\ Stack' = pushStack([d \in 0..(n - 1) |-> BlankStackItem], -1, next0)
            /\ Depth' = 0
            /\ trialStart' = [d \in 0..(n - 1) |-> NoTrial]
    /\ pc' = "CodeLoc1"
    /\ UNCHANGED <<OutImages, aMaxOutImageWidth, aMaxOutImageHeight,
                   MinOutImageCount, FitCallsLimit, FitQuality, result,
                   Area, OutArea, histVars, attempts>>

\* lines 1114-1203: two or more areas; the one Fitter of fitAreas (line 1195)
\* is set up and calls fitUnfittedAreas
fitAreasSearch == fitAreasSetUp /\ UNCHANGED others

\* --------------------------------------------------------- fitUnfittedAreas
\* the variables no step of fitUnfittedAreas writes
outsideSearch == <<callerVars, MaxOutImageSize, histVars, others>>

\* s, the current stack item
s == Stack[Depth]

\* lines 1454-1455 and 1794-1795; lines 1705-1706 test the negation
BoundsExceeded(f) ==
    f.OutSize >= f.BestOutSize \/ f.OutImageCount > f.BestOutImageCount

\* Mutant of ScanOutAreas: the scan also stops at a region of equal Height.
RECURSIVE ScanOutAreas_BeforeEqual(_, _, _, _)
ScanOutAreas_BeforeEqual(nodes, prev, scan, height) ==
    IF scan = NULL \/ nodes[scan].Height >= height THEN prev
    ELSE ScanOutAreas_BeforeEqual(nodes, scan, nodes[scan].Next, height)

\* lines 1923-1937: the scan of insertOutArea, from PrevScanOutArea = prev and
\* ScanOutArea = scan; the value is the final PrevScanOutArea
RECURSIVE ScanOutAreas(_, _, _, _)
ScanOutAreas(nodes, prev, scan, height) ==
    IF scan = NULL \/ nodes[scan].Height > height THEN prev
    ELSE ScanOutAreas(nodes, scan, nodes[scan].Next, height)

\* lines 1923-1943: insertOutArea( &node id ); the chain after it and the
\* returned predecessor
insertOutArea(nodes, id) ==
    LET P == ScanOutAreas(nodes, 0, nodes[0].Next, nodes[id].Height)
    IN  [nodes |-> [nodes EXCEPT ![id].Next = nodes[P].Next, ![P].Next = id],
         prev |-> P]

\* Mutant of checkAreaFitAgainstBest: a region refused for MaxOutImageSize
\* counts as tried.
checkAreaFit_CountsSizeLimit(NewWidth, NewHeight, k, st, f) ==
    LET OutImage == f.OutImages[k + 1]
        DoUpdateSize == NewWidth > OutImage.Width \/ NewHeight > OutImage.Height
        W == IF NewWidth > OutImage.Width THEN NewWidth ELSE OutImage.Width
        H == IF NewHeight > OutImage.Height THEN NewHeight ELSE OutImage.Height
        NewSize == W * H
        NewOutSize == f.OutSize + NewSize - OutImage.Size
    IN  IF DoUpdateSize
        THEN IF NewSize > MaxOutImageSize \/ NewOutSize >= f.BestOutSize
             THEN [ret |-> FALSE,
                   s |-> [st EXCEPT !.OutAreasTried = @ + 1], fd |-> f]
             ELSE [ret |-> TRUE,
                   s |-> [st EXCEPT !.OutImageSave = OutImage,
                                    !.OutSizeSave = f.OutSize,
                                    !.DoOutImageRestore = TRUE,
                                    !.OutAreasTried = @ + 1],
                   fd |-> [f EXCEPT !.OutImages[k + 1] = COutImage(W, H, NewSize),
                                    !.OutSize = NewOutSize]]
        ELSE [ret |-> TRUE,
              s |-> [st EXCEPT !.DoOutImageRestore = FALSE,
                               !.OutAreasTried = @ + 1],
              fd |-> f]

\* Mutant of checkAreaFitAgainstBest: the new summed size does not take off
\* the previous Size of the image.
checkAreaFit_NoSubtract(NewWidth, NewHeight, k, st, f) ==
    LET OutImage == f.OutImages[k + 1]
        DoUpdateSize == NewWidth > OutImage.Width \/ NewHeight > OutImage.Height
        W == IF NewWidth > OutImage.Width THEN NewWidth ELSE OutImage.Width
        H == IF NewHeight > OutImage.Height THEN NewHeight ELSE OutImage.Height
        NewSize == W * H
        NewOutSize == f.OutSize + NewSize
    IN  IF DoUpdateSize
        THEN IF NewSize > MaxOutImageSize
             THEN [ret |-> FALSE, s |-> st, fd |-> f]
             ELSE IF NewOutSize >= f.BestOutSize
             THEN [ret |-> FALSE,
                   s |-> [st EXCEPT !.OutAreasTried = @ + 1], fd |-> f]
             ELSE [ret |-> TRUE,
                   s |-> [st EXCEPT !.OutImageSave = OutImage,
                                    !.OutSizeSave = f.OutSize,
                                    !.DoOutImageRestore = TRUE,
                                    !.OutAreasTried = @ + 1],
                   fd |-> [f EXCEPT !.OutImages[k + 1] = COutImage(W, H, NewSize),
                                    !.OutSize = NewOutSize]]
        ELSE [ret |-> TRUE,
              s |-> [st EXCEPT !.DoOutImageRestore = FALSE,
                               !.OutAreasTried = @ + 1],
              fd |-> f]

\* Mutant of checkAreaFitAgainstBest: the test against MaxOutImageSize is
\* missing.
checkAreaFit_NoSizeLimit(NewWidth, NewHeight, k, st, f) ==
    LET OutImage == f.OutImages[k + 1]
        DoUpdateSize == NewWidth > OutImage.Width \/ NewHeight > OutImage.Height
        W == IF NewWidth > OutImage.Width THEN NewWidth ELSE OutImage.Width
        H == IF NewHeight > OutImage.Height THEN NewHeight ELSE OutImage.Height
        NewSize == W * H
        NewOutSize == f.OutSize + NewSize - OutImage.Size
    IN  IF DoUpdateSize
        THEN IF NewOutSize >= f.BestOutSize
             THEN [ret |-> FALSE,
                   s |-> [st EXCEPT !.OutAreasTried = @ + 1], fd |-> f]
             ELSE [ret |-> TRUE,
                   s |-> [st EXCEPT !.OutImageSave = OutImage,
                                    !.OutSizeSave = f.OutSize,
                                    !.DoOutImageRestore = TRUE,
                                    !.OutAreasTried = @ + 1],
                   fd |-> [f EXCEPT !.OutImages[k + 1] = COutImage(W, H, NewSize),
                                    !.OutSize = NewOutSize]]
        ELSE [ret |-> TRUE,
              s |-> [st EXCEPT !.DoOutImageRestore = FALSE,
                               !.OutAreasTried = @ + 1],
              fd |-> f]

\* lines 1855-1913: checkAreaFitAgainstBest on image k (0-based) of f, with the
\* reference arguments taken from and written to the stack item st.
checkAreaFitAgainstBest(NewWidth, NewHeight, k, st, f) ==
    LET OutImage == f.OutImages[k + 1]
        DoUpdateSize == NewWidth > OutImage.Width \/ NewHeight > OutImage.Height
        W == IF NewWidth > OutImage.Width THEN NewWidth ELSE OutImage.Width
        H == IF NewHeight > OutImage.Height THEN NewHeight ELSE OutImage.Height
        NewSize == W * H
        NewOutSize == f.OutSize + NewSize - OutImage.Size
    IN  IF DoUpdateSize
        THEN IF NewSize > MaxOutImageSize
             THEN [ret |-> FALSE, s |-> st, fd |-> f]
             ELSE IF NewOutSize >= f.BestOutSize
             THEN [ret |-> FALSE,
                   s |-> [st EXCEPT !.OutAreasTried = @ + 1], fd |-> f]
             ELSE [ret |-> TRUE,
                   s |-> [st EXCEPT !.OutImageSave = OutImage,
                                    !.OutSizeSave = f.OutSize,
                                    !.DoOutImageRestore = TRUE,
                                    !.OutAreasTried = @ + 1],
                   fd |-> [f EXCEPT !.OutImages[k + 1] = COutImage(W, H, NewSize),
                                    !.OutSize = NewOutSize]]
        ELSE [ret |-> TRUE,
              s |-> [st EXCEPT !.DoOutImageRestore = FALSE,
                               !.OutAreasTried = @ + 1],
              fd |-> f]

\* lines 1452-1458: the area loop of the current frame ends
LoopExit ==
    /\ pc = "CodeLoc1"
    /\ s.Area = NULL \/ BoundsExceeded(fd)
    /\ pc' = "Unwind"
    /\ UNCHANGED <<outsideSearch, Globals, fd, OutAreaNodes, FitCallsLeft, Areas,
                   AreaNext, Stack, Depth, Area, OutArea, attempts, trialStart>>

\* Mutant of RefillSlice: a full slice is taken whatever the shared budget
\* holds.
RefillSlice_AlwaysFull(shared) == FitCallsSlice

\* lines 1481-1490: the slice a refill takes from a shared budget
RefillSlice(shared) == IF shared >= FitCallsSlice THEN FitCallsSlice ELSE shared

\* lines 1460-1491: the local budget is used up
Refill ==
    /\ pc = "CodeLoc1"
    /\ s.Area # NULL /\ ~BoundsExceeded(fd)
    /\ FitCallsLeft = 0
    /\ IF \/ fd.BestOutSize > Globals.BestOutSize
          \/ fd.BestOutImageCount > Globals.BestOutImageCount
       THEN /\ fd' = [fd EXCEPT !.BestOutSize = Globals.BestOutSize,
                                !.BestOutImageCount = Globals.BestOutImageCount]
            /\ pc' = "Unwind"
            /\ UNCHANGED <<Globals, FitCallsLeft>>
       ELSE IF Globals.FitCallsLeft = 0
       THEN /\ pc' = "Returned"
            /\ UNCHANGED <<Globals, FitCallsLeft, fd>>
       ELSE /\ FitCallsLeft' = RefillSlice(Globals.FitCallsLeft)
            /\ Globals' = [Globals EXCEPT
                              !.FitCallsLeft = @ - RefillSlice(Globals.FitCallsLeft)]
            /\ pc' = "Line1493"
            /\ UNCHANGED fd
    /\ UNCHANGED <<outsideSearch, OutAreaNodes, Areas, AreaNext, Stack, Depth,
                   Area, OutArea, attempts, trialStart>>

\* Mutant of SpendFitCall: an attempt is not paid for.
SpendFitCall_Free(left) == left

\* Mutant of SpendFitCall: an attempt is paid for twice.
SpendFitCall_Twice(left) == left - 2

\* line 1493: one placement attempt is paid for
SpendFitCall(left) == left - 1

\* lines 1493-1499: detach s->Area from the unfitted chain, start the walk
\* over the free regions
Detach ==
    /\ \/ pc = "Line1493"
       \/ /\ pc = "CodeLoc1"
          /\ s.Area # NULL /\ ~BoundsExceeded(fd)
          /\ FitCallsLeft # 0
    /\ FitCallsLeft' = SpendFitCall(FitCallsLeft)
    /\ attempts' = attempts + 1
    /\ Area' = s.Area
    /\ AreaNext' = [AreaNext EXCEPT ![s.PrevArea] = AreaNext[s.Area]]
    /\ OutArea' = OutAreaNodes[0].Next
    /\ Stack' = [Stack EXCEPT ![Depth].PrevOutArea = 0, ![Depth].OutAreasTried = 0]
    /\ pc' = "OutAreaLoop"
    /\ UNCHANGED <<outsideSearch, Globals, fd, OutAreaNodes, Areas, Depth, trialStart>>

\* lines 1503-1513: the walk reached the end of the chain and stops
OutAreasExhausted ==
    /\ pc = "OutAreaLoop"
    /\ OutArea = NULL
    /\ s.OutAreasTried > 0 \/ fd.OutImageCount = fd.BestOutImageCount
    /\ pc' = "Reattach"
    /\ UNCHANGED <<outsideSearch, Globals, fd, OutAreaNodes, FitCallsLeft, Areas,
                   AreaNext, Stack, Depth, Area, OutArea, attempts, trialStart>>

\* the free-region chain from region id on: its members, in order
RECURSIVE OutAreaChain(_, _)
OutAreaChain(nodes, id) ==
    IF id = NULL THEN <<>>
    ELSE <<[ptr |-> id, OutImage |-> nodes[id].OutImage,
            x |-> nodes[id].x, y |-> nodes[id].y,
            Width |-> nodes[id].Width, Height |-> nodes[id].Height]>>
         \o OutAreaChain(nodes, nodes[id].Next)

\* the packing state: the chain behind fd -> OutAreas, the OutImageCount
\* output images, fd -> OutSize and fd -> OutImageCount
PackingState(nodes, f) ==
    [OutAreas |-> OutAreaChain(nodes, nodes[0].Next),
     OutImages |-> SubSeq(f.OutImages, 1, f.OutImageCount),
     OutSize |-> f.OutSize, OutImageCount |-> f.OutImageCount]

\* line 1503: a pass of the region loop begins, for a region of the chain or
\* for one that lines 1515-1533 make
TrialBegins ==
    IF pc = "OutAreaLoop"
    THEN [trialStart EXCEPT ![Depth] = PackingState(OutAreaNodes, fd)]
    ELSE trialStart

\* fd -> OutImages[ k ] = img, after updateCapacity( k + 1 )
SetOutImage(imgs, k, img) ==
    IF k + 1 <= Len(imgs) THEN [imgs EXCEPT ![k + 1] = img] ELSE Append(imgs, img)

\* Mutant of NewImageOutArea: the region of a new image has the maximum
\* dimensions whatever the area.
NewImageOutArea_MaxOnly(a, oi, nx) ==
    COutArea(oi, 0, 0, aMaxOutImageWidth, aMaxOutImageHeight, nx)

\* lines 1518-1522: the free region of a new output image made for area a
NewImageOutArea(a, oi, nx) ==
    COutArea(oi, 0, 0,
             IF a.Width > aMaxOutImageWidth THEN a.Width ELSE aMaxOutImageWidth,
             IF a.Height > aMaxOutImageHeight THEN a.Height ELSE aMaxOutImageHeight,
             nx)

\* Mutant of AddOutImage: a new output image is made without the test of
\* the image count against the local bound.
AddOutImage_NoCountTest ==
    /\ pc = "OutAreaLoop"
    /\ OutArea = NULL
    /\ ~(s.OutAreasTried > 0)
    /\ LET id == NewOutAreaPtr(Depth, 2)
           written == [OutAreaNodes EXCEPT
                          ![id] = NewImageOutArea(Areas[Area], @.OutImage, @.Next)]
           ins == insertOutArea(written, id)
       IN  /\ OutAreaNodes' = [ins.nodes EXCEPT ![id].OutImage = fd.OutImageCount]
           /\ Stack' = [Stack EXCEPT ![Depth].PrevOutArea = ins.prev,
                                     ![Depth].WasOutImageAdded = TRUE]
           /\ OutArea' = id
    /\ fd' = [fd EXCEPT !.OutImages = SetOutImage(@, fd.OutImageCount, COutImage(0, 0, 0)),
                        !.OutImageCount = @ + 1]
    /\ pc' = "Line1540"
    /\ trialStart' = TrialBegins
    /\ UNCHANGED <<outsideSearch, Globals, FitCallsLeft, Areas, AreaNext, Depth,
                   Area, attempts>>

\* lines 1515-1533: a new output image is made for Area
AddOutImage ==
    /\ pc = "OutAreaLoop"
    /\ OutArea = NULL
    /\ ~(s.OutAreasTried > 0) /\ fd.OutImageCount # fd.BestOutImageCount
    /\ LET id == NewOutAreaPtr(Depth, 2)
           written == [OutAreaNodes EXCEPT
                          ![id] = NewImageOutArea(Areas[Area], @.OutImage, @.Next)]
           ins == insertOutArea(written, id)
       IN  /\ OutAreaNodes' = [ins.nodes EXCEPT ![id].OutImage = fd.OutImageCount]
           /\ Stack' = [Stack EXCEPT ![Depth].PrevOutArea = ins.prev,
                                     ![Depth].WasOutImageAdded = TRUE]
           /\ OutArea' = id
    /\ fd' = [fd EXCEPT !.OutImages = SetOutImage(@, fd.OutImageCount, COutImage(0, 0, 0)),
                        !.OutImageCount = @ + 1]
    /\ pc' = "Line1540"
    /\ trialStart' = TrialBegins
    /\ UNCHANGED <<outsideSearch, Globals, FitCallsLeft, Areas, AreaNext, Depth,
                   Area, attempts>>

\* The trial of Area in OutArea starts at line 1540, either after line 1537
\* (OutArea was not NULL) or after AddOutImage.
AtTrial == (pc = "OutAreaLoop" /\ OutArea # NULL) \/ pc = "Line1540"

\* lines 1537-1542: the stack item at line 1544
TrialItem ==
    LET s0 == IF pc = "OutAreaLoop" THEN [s EXCEPT !.WasOutImageAdded = FALSE] ELSE s
    IN  [s0 EXCEPT !.OutArea = OutArea,
                   !.OutAreaRemainRight = OutAreaNodes[OutArea].Width - Areas[Area].Width,
                   !.OutAreaRemainBottom = OutAreaNodes[OutArea].Height - Areas[Area].Height]

\* lines 1544-1545, negated: Area fits into OutArea
Fits(st) == ~(st.OutAreaRemainRight < 0 \/ st.OutAreaRemainBottom < 0)

\* lines 1552-1556: the call of checkAreaFitAgainstBest
TrialCheck ==
    checkAreaFitAgainstBest(OutAreaNodes[OutArea].x + Areas[Area].Width,
                            OutAreaNodes[OutArea].y + Areas[Area].Height,
                            OutAreaNodes[OutArea].OutImage, TrialItem, fd)

\* Mutant of SkipOutArea: the walk does not advance to the next region.
SkipOutArea_NoAdvance ==
    /\ AtTrial
    /\ ~Fits(TrialItem)
    /\ trialStart' = TrialBegins
    /\ Stack' = [Stack EXCEPT ![Depth] = [TrialItem EXCEPT !.PrevOutArea = OutArea]]
    /\ pc' = "OutAreaLoop"
    /\ UNCHANGED <<outsideSearch, Globals, fd, OutAreaNodes, FitCallsLeft, Areas,
                   AreaNext, Depth, Area, OutArea, attempts>>

\* lines 1544-1550: Area does not fit into OutArea, go to the next region
SkipOutArea ==
    /\ AtTrial
    /\ ~Fits(TrialItem)
    /\ Stack' = [Stack EXCEPT ![Depth] = [TrialItem EXCEPT !.PrevOutArea = OutArea]]
    /\ OutArea' = OutAreaNodes[OutArea].Next
    /\ pc' = "OutAreaLoop"
    /\ trialStart' = TrialBegins
    /\ UNCHANGED <<outsideSearch, Globals, fd, OutAreaNodes, FitCallsLeft, Areas,
                   AreaNext, Depth, Area, attempts>>

\* Mutant of RestoreOutImage: the image is restored, the summed size is not.
RestoreOutImage_KeepOutSize(st, f, nodes, oa) ==
    IF st.DoOutImageRestore
    THEN [f EXCEPT !.OutImages[nodes[oa].OutImage + 1] = st.OutImageSave]
    ELSE f

\* lines 1778-1784: undo the growth of the output image of region oa
RestoreOutImage(st, f, nodes, oa) ==
    IF st.DoOutImageRestore
    THEN [f EXCEPT !.OutImages[nodes[oa].OutImage + 1] = st.OutImageSave,
                   !.OutSize = st.OutSizeSave]
    ELSE f

\* lines 1787-1801: the end of one pass of the region loop: where the code
\* goes next, and the state it leaves
EndOfTrial(st, f, nodes, oa) ==
    IF st.WasOutImageAdded
    THEN [pc |-> "Reattach",
          nodes |-> [nodes EXCEPT ![st.PrevOutArea].Next = nodes[oa].Next],
          fd |-> [f EXCEPT !.OutImageCount = @ - 1],
          s |-> st, OutArea |-> oa]
    ELSE IF BoundsExceeded(f)
    THEN [pc |-> "Reattach", nodes |-> nodes, fd |-> f, s |-> st, OutArea |-> oa]
    ELSE [pc |-> "OutAreaLoop", nodes |-> nodes, fd |-> f,
          s |-> [st EXCEPT !.PrevOutArea = oa], OutArea |-> nodes[oa].Next]

\* lines 1552-1556 and 1787-1801: checkAreaFitAgainstBest refuses the region
RejectOutArea ==
    /\ AtTrial
    /\ Fits(TrialItem)
    /\ ~TrialCheck.ret
    /\ LET e == EndOfTrial(TrialCheck.s, TrialCheck.fd, OutAreaNodes, OutArea)
       IN  /\ pc' = e.pc
           /\ OutAreaNodes' = e.nodes
           /\ fd' = e.fd
           /\ Stack' = [Stack EXCEPT ![Depth] = e.s]
           /\ OutArea' = e.OutArea
    /\ trialStart' = TrialBegins
    /\ UNCHANGED <<outsideSearch, Globals, FitCallsLeft, Areas, AreaNext, Depth,
                   Area, attempts>>

\* lines 1558-1560: Area is placed at the origin of region oa
PlaceArea(areas, a, nodes, oa) ==
    [areas EXCEPT ![a].OutImage = nodes[oa].OutImage,
                  ![a].OutX = nodes[oa].x,
                  ![a].OutY = nodes[oa].y]

\* lines 1580-1582: the placement is better than the shared best
IsNewBest(f, g) ==
    f.OutSize < g.BestOutSize /\ f.OutImageCount <= g.BestOutImageCount

\* Mutant of PublishBest: the copy loop of the output images stops one
\* image early.
PublishBest_ShortImages(g, f, areas) ==
    [g EXCEPT !.BestFittedAreas = areas,
              !.BestOutSize = f.OutSize,
              !.BestOutImageCount = f.OutImageCount,
              !.BestOutImages = SubSeq(f.OutImages, 1, f.OutImageCount - 1)]

\* Mutant of PublishBest: the copy of the fitted areas leaves out the last
\* area.
PublishBest_ShortAreas(g, f, areas) ==
    [g EXCEPT !.BestFittedAreas = SubSeq(areas, 1, Len(areas) - 1),
              !.BestOutSize = f.OutSize,
              !.BestOutImageCount = f.OutImageCount,
              !.BestOutImages = SubSeq(f.OutImages, 1, f.OutImageCount)]

\* Mutant of PublishBest: the published size is the local bound instead of
\* the summed size of the placement.
PublishBest_StaleSize(g, f, areas) ==
    [g EXCEPT !.BestFittedAreas = areas,
              !.BestOutSize = f.BestOutSize,
              !.BestOutImageCount = f.OutImageCount,
              !.BestOutImages = SubSeq(f.OutImages, 1, f.OutImageCount)]

\* Mutant of PublishBest: the shared best image count is not updated.
PublishBest_KeepImageCount(g, f, areas) ==
    [g EXCEPT !.BestFittedAreas = areas,
              !.BestOutSize = f.OutSize,
              !.BestOutImages = SubSeq(f.OutImages, 1, f.OutImageCount)]

\* lines 1587-1601: the shared best after a publication
PublishBest(g, f, areas) ==
    [g EXCEPT !.BestFittedAreas = areas,
              !.BestOutSize = f.OutSize,
              !.BestOutImageCount = f.OutImageCount,
              !.BestOutImages = SubSeq(f.OutImages, 1, f.OutImageCount)]


\* Mutant of PlaceLastArea: after the last area is placed and the placement
\* published, the code goes on to push a frame as if areas remained.
PlaceLastArea_Pushes ==
    /\ AtTrial
    /\ Fits(TrialItem)
    /\ TrialCheck.ret
    /\ AreaNext[0] = NULL
    /\ LET placed == PlaceArea(Areas, Area, OutAreaNodes, OutArea)
           f1 == TrialCheck.fd
       IN  /\ Areas' = placed
           /\ Globals' = IF IsNewBest(f1, Globals)
                         THEN PublishBest(Globals, f1, placed) ELSE Globals
           /\ fd' = f1
           /\ Stack' = pushStack([Stack EXCEPT ![Depth] = [TrialCheck.s EXCEPT !.CodeLoc = 2]],
                                 Depth, AreaNext)
           /\ Depth' = Depth + 1
    /\ pc' = "CodeLoc1"
    /\ UNCHANGED <<outsideSearch, OutAreaNodes, FitCallsLeft, AreaNext, Area,
                   OutArea, attempts, trialStart>>

\* lines 1558-1609 and 1778-1801: the last unfitted area is placed: a complete
\* placement
PlaceLastArea ==
    /\ AtTrial
    /\ Fits(TrialItem)
    /\ TrialCheck.ret
    /\ AreaNext[0] = NULL
    /\ LET placed == PlaceArea(Areas, Area, OutAreaNodes, OutArea)
           f1 == TrialCheck.fd
           f2 == IF IsNewBest(f1, Globals)
                 THEN [f1 EXCEPT !.BestOutSize = f1.OutSize,
                                 !.BestOutImageCount = f1.OutImageCount]
                 ELSE [f1 EXCEPT !.BestOutSize = Globals.BestOutSize,
                                 !.BestOutImageCount = Globals.BestOutImageCount]
           f3 == RestoreOutImage(TrialCheck.s, f2, OutAreaNodes, OutArea)
           e == EndOfTrial(TrialCheck.s, f3, OutAreaNodes, OutArea)
       IN  /\ Areas' = placed
           /\ Globals' = IF IsNewBest(f1, Globals)
                         THEN PublishBest(Globals, f1, placed) ELSE Globals
           /\ pc' = e.pc
           /\ OutAreaNodes' = e.nodes
           /\ fd' = e.fd
           /\ Stack' = [Stack EXCEPT ![Depth] = e.s]
           /\ OutArea' = e.OutArea
    /\ trialStart' = TrialBegins
    /\ UNCHANGED <<outsideSearch, FitCallsLeft, AreaNext, Depth, Area, attempts>>

\* the unfitted chain from area a on, as the list of its members
RECURSIVE Chain(_, _)
Chain(next, a) == IF a = NULL THEN <<>> ELSE <<a>> \o Chain(next, next[a])

\* lines 1612-1634: the least Width and the least Height in the unfitted chain
MinAreaWidth(areas, next) ==
    LET ch == Chain(next, next[0])
    IN  CHOOSE w \in {areas[ch[i]].Width : i \in 1..Len(ch)} :
            \A j \in 1..Len(ch) : w <= areas[ch[j]].Width
MinAreaHeight(areas, next) ==
    LET ch == Chain(next, next[0])
    IN  CHOOSE h \in {areas[ch[i]].Height : i \in 1..Len(ch)} :
            \A j \in 1..Len(ch) : h <= areas[ch[j]].Height

\* Mutant of Config1Right: the right child is only as high as the placed area.
Config1Right_AreaHeight(st, host, a, nx) ==
    COutArea(host.OutImage, host.x + a.Width, host.y,
             st.OutAreaRemainRight, a.Height, nx)

\* Mutant of Config1Right: the right child starts one pixel too far right.
Config1Right_OffByOne(st, host, a, nx) ==
    COutArea(host.OutImage, host.x + a.Width + 1, host.y,
             st.OutAreaRemainRight, host.Height, nx)

\* Mutant of Config1Right: the x offset of the right child leaves out the
\* width of the placed area.
Config1Right_NoOffset(st, host, a, nx) ==
    COutArea(host.OutImage, host.x, host.y, st.OutAreaRemainRight, host.Height, nx)

\* Mutant of Config1RightOk: the Height of the right child is not tested.
Config1RightOk_WidthOnly(st, host, a) == st.OutAreaRemainRight >= st.MinAreaWidth

\* lines 1644-1645 and 1647-1657: the right child of configuration 1
Config1RightOk(st, host, a) ==
    st.OutAreaRemainRight >= st.MinAreaWidth /\ host.Height >= st.MinAreaHeight
Config1Right(st, host, a, nx) ==
    COutArea(host.OutImage, host.x + a.Width, host.y,
             st.OutAreaRemainRight, host.Height, nx)

\* Mutant of Config1Bottom: the bottom child is as wide as the host region.
Config1Bottom_HostWidth(st, host, a, nx) ==
    COutArea(host.OutImage, host.x, host.y + a.Height,
             host.Width, st.OutAreaRemainBottom, nx)

\* lines 1668-1669 and 1671-1681: the bottom child of configuration 1
Config1BottomOk(st, host, a) ==
    a.Width >= st.MinAreaWidth /\ st.OutAreaRemainBottom >= st.MinAreaHeight
Config1Bottom(st, host, a, nx) ==
    COutArea(host.OutImage, host.x, host.y + a.Height,
             a.Width, st.OutAreaRemainBottom, nx)

\* Mutant of Config2Right: the right child is as high as the host region.
Config2Right_HostHeight(st, host, a, nx) ==
    COutArea(host.OutImage, host.x + a.Width, host.y,
             st.OutAreaRemainRight, host.Height, nx)

\* lines 1708-1710 and 1712-1722: the right child of configuration 2
Config2RightOk(st, host, a) ==
    st.OutAreaRemainRight >= st.MinAreaWidth /\ a.Height >= st.MinAreaHeight
Config2Right(st, host, a, nx) ==
    COutArea(host.OutImage, host.x + a.Width, host.y,
             st.OutAreaRemainRight, a.Height, nx)

\* Mutant of Config2Bottom: the bottom child is only as wide as the placed
\* area.
Config2Bottom_AreaWidth(st, host, a, nx) ==
    COutArea(host.OutImage, host.x, host.y + a.Height,
             a.Width, st.OutAreaRemainBottom, nx)

\* lines 1733-1735 and 1737-1748: the bottom child of configuration 2
Config2BottomOk(st, host, a) ==
    host.Width >= st.MinAreaWidth /\ st.OutAreaRemainBottom >= st.MinAreaHeight
Config2Bottom(st, host, a, nx) ==
    COutArea(host.OutImage, host.x, host.y + a.Height,
             host.Width, st.OutAreaRemainBottom, nx)

\* lines 1644-1686 and 1708-1754: write the accepted children into
\* NewOutAreas[ 0 ] and [ 1 ] of frame d and insert them; the chain and the
\* stack item after it
InsertChildren(nodes, st, d, rightOk, right, bottomOk, bottom) ==
    LET id0 == NewOutAreaPtr(d, 0)
        id1 == NewOutAreaPtr(d, 1)
        ins0 == insertOutArea([nodes EXCEPT ![id0] = [right EXCEPT !.Next = nodes[id0].Next]],
                              id0)
        n1 == IF rightOk THEN ins0.nodes ELSE nodes
        s1 == IF rightOk
              THEN [st EXCEPT !.PrevNewOutAreas[1] = ins0.prev, !.c = 1]
              ELSE [st EXCEPT !.c = 0]
        ins1 == insertOutArea([n1 EXCEPT ![id1] = [bottom EXCEPT !.Next = n1[id1].Next]],
                              id1)
    IN  IF bottomOk
        THEN [nodes |-> ins1.nodes,
              s |-> [s1 EXCEPT !.PrevNewOutAreas[s1.c + 1] = ins1.prev, !.c = @ + 1]]
        ELSE [nodes |-> n1, s |-> s1]

\* lines 1694-1700 and 1763-1769: unlink the children of the last
\* configuration, the last inserted first
RECURSIVE RemoveChildren(_, _, _)
RemoveChildren(nodes, prevs, c) ==
    IF c > 0
    THEN RemoveChildren(
            [nodes EXCEPT ![prevs[c]].Next = nodes[nodes[prevs[c]].Next].Next],
            prevs, c - 1)
    ELSE nodes

\* lines 1558-1560 and 1610-1691: Area is placed and areas remain: the host
\* region is unlinked, the children of configuration 1 are inserted and a
\* frame is pushed for the remaining areas
PlaceAreaConfig1 ==
    /\ AtTrial
    /\ Fits(TrialItem)
    /\ TrialCheck.ret
    /\ AreaNext[0] # NULL
    /\ LET placed == PlaceArea(Areas, Area, OutAreaNodes, OutArea)
           st == [TrialCheck.s EXCEPT !.MinAreaWidth = MinAreaWidth(Areas, AreaNext),
                                      !.MinAreaHeight = MinAreaHeight(Areas, AreaNext)]
           host == OutAreaNodes[OutArea]
           a == Areas[Area]
           unlinked == [OutAreaNodes EXCEPT ![st.PrevOutArea].Next = host.Next]
           ins == InsertChildren(unlinked, st, Depth,
                                 Config1RightOk(st, host, a), Config1Right(st, host, a, NULL),
                                 Config1BottomOk(st, host, a), Config1Bottom(st, host, a, NULL))
           st2 == [ins.s EXCEPT !.c1 = ins.s.c, !.CodeLoc = 2]
       IN  /\ Areas' = placed
           /\ fd' = TrialCheck.fd
           /\ OutAreaNodes' = ins.nodes
           /\ Stack' = pushStack([Stack EXCEPT ![Depth] = st2], Depth, AreaNext)
           /\ Depth' = Depth + 1
    /\ pc' = "CodeLoc1"
    /\ trialStart' = [TrialBegins EXCEPT ![Depth + 1] = NoTrial]
    /\ UNCHANGED <<outsideSearch, Globals, FitCallsLeft, AreaNext, Area, OutArea,
                   attempts>>

\* the chain and the stack item at line 1756, when configuration 2 is tried
Config2Inserted ==
    LET nodes == RemoveChildren(OutAreaNodes, s.PrevNewOutAreas, s.c)
        st == [s EXCEPT !.c = 0]
        host == OutAreaNodes[OutArea]
        a == Areas[Area]
    IN  InsertChildren(nodes, st, Depth,
                       Config2RightOk(st, host, a), Config2Right(st, host, a, NULL),
                       Config2BottomOk(st, host, a), Config2Bottom(st, host, a, NULL))

\* Mutant of Config2Recurses: the local bounds are not tested.
Config2Recurses_NoBounds == Config2Inserted.s.c + Config2Inserted.s.c1 > 0

\* lines 1705-1706 and 1756: configuration 2 is tried and a frame is pushed
Config2Recurses ==
    /\ ~BoundsExceeded(fd)
    /\ Config2Inserted.s.c + Config2Inserted.s.c1 > 0

\* lines 1693-1760: back in the frame after configuration 1: its children are
\* unlinked, those of configuration 2 inserted, and a frame is pushed
CodeLoc2Config2 ==
    /\ pc = "CodeLoc2"
    /\ Config2Recurses
    /\ OutAreaNodes' = Config2Inserted.nodes
    /\ Stack' = pushStack([Stack EXCEPT ![Depth] = [Config2Inserted.s EXCEPT !.CodeLoc = 3]],
                          Depth, AreaNext)
    /\ Depth' = Depth + 1
    /\ pc' = "CodeLoc1"
    /\ trialStart' = [trialStart EXCEPT ![Depth + 1] = NoTrial]
    /\ UNCHANGED <<outsideSearch, Globals, fd, FitCallsLeft, Areas, AreaNext, Area,
                   OutArea, attempts>>

\* lines 1773-1801: the host region is linked in again, the image restored,
\* and the region loop goes on or stops
FinishTrial(nodes, st) ==
    LET relinked == [nodes EXCEPT ![st.PrevOutArea].Next = OutArea]
        f == RestoreOutImage(st, fd, relinked, OutArea)
    IN  EndOfTrial(st, f, relinked, OutArea)

\* lines 1693-1706, 1756 and 1773-1801: back in the frame after configuration
\* 1, and configuration 2 is not tried
CodeLoc2Skip ==
    /\ pc = "CodeLoc2"
    /\ ~Config2Recurses
    /\ LET e == IF BoundsExceeded(fd)
                THEN FinishTrial(RemoveChildren(OutAreaNodes, s.PrevNewOutAreas, s.c),
                                 [s EXCEPT !.c = 0])
                ELSE FinishTrial(Config2Inserted.nodes, Config2Inserted.s)
       IN  /\ pc' = e.pc
           /\ OutAreaNodes' = e.nodes
           /\ fd' = e.fd
           /\ Stack' = [Stack EXCEPT ![Depth] = e.s]
           /\ OutArea' = e.OutArea
    /\ UNCHANGED <<outsideSearch, Globals, FitCallsLeft, Areas, AreaNext, Depth,
                   Area, attempts, trialStart>>

\* lines 1762-1801: back in the frame after configuration 2
CodeLoc3 ==
    /\ pc = "CodeLoc3"
    /\ LET e == FinishTrial(RemoveChildren(OutAreaNodes, s.PrevNewOutAreas, s.c),
                            [s EXCEPT !.c = 0])
       IN  /\ pc' = e.pc
           /\ OutAreaNodes' = e.nodes
           /\ fd' = e.fd
           /\ Stack' = [Stack EXCEPT ![Depth] = e.s]
           /\ OutArea' = e.OutArea
    /\ UNCHANGED <<outsideSearch, Globals, FitCallsLeft, Areas, AreaNext, Depth,
                   Area, attempts, trialStart>>

\* Mutant of Reattach: the frame moves on without linking Area in again.
Reattach_NoRelink ==
    /\ pc = "Reattach"
    /\ Stack' = [Stack EXCEPT ![Depth].PrevArea = Area, ![Depth].Area = AreaNext[Area]]
    /\ pc' = "CodeLoc1"
    /\ UNCHANGED <<outsideSearch, Globals, fd, OutAreaNodes, FitCallsLeft, Areas,
                   AreaNext, Depth, Area, OutArea, attempts, trialStart>>

\* lines 1804-1807: Area goes back into the unfitted chain, the frame moves
\* on to the next area
Reattach ==
    /\ pc = "Reattach"
    /\ AreaNext' = [AreaNext EXCEPT ![s.PrevArea] = Area]
    /\ Stack' = [Stack EXCEPT ![Depth].PrevArea = Area, ![Depth].Area = AreaNext[Area]]
    /\ pc' = "CodeLoc1"
    /\ UNCHANGED <<outsideSearch, Globals, fd, OutAreaNodes, FitCallsLeft, Areas,
                   Depth, Area, OutArea, attempts, trialStart>>

\* lines 1810-1825: the frame is finished, the frame below resumes
PopStack ==
    /\ pc = "Unwind"
    /\ Depth > 0
    /\ Depth' = Depth - 1
    /\ Area' = Stack[Depth - 1].Area
    /\ OutArea' = Stack[Depth - 1].OutArea
    /\ pc' = IF Stack[Depth - 1].CodeLoc = 2 THEN "CodeLoc2" ELSE "CodeLoc3"
    /\ UNCHANGED <<outsideSearch, Globals, fd, OutAreaNodes, FitCallsLeft, Areas,
                   AreaNext, Stack, attempts, trialStart>>

\* Mutant of ReturnBudget: the root frame is finished and the unused local
\* budget stays with the Fitter.
ReturnBudget_KeepLocal ==
    /\ pc = "Unwind"
    /\ ~(Depth > 0)
    /\ pc' = "Returned"
    /\ UNCHANGED <<outsideSearch, Globals, FitCallsLeft, fd, OutAreaNodes, Areas,
                   AreaNext, Stack, Depth, Area, OutArea, attempts, trialStart>>

\* lines 1827-1833: the root frame is finished, the unused local budget goes
\* back to the shared one
ReturnBudget ==
    /\ pc = "Unwind"
    /\ ~(Depth > 0)
    /\ IF FitCallsLeft > 0
       THEN /\ Globals' = [Globals EXCEPT !.FitCallsLeft = @ + FitCallsLeft]
            /\ FitCallsLeft' = 0
       ELSE UNCHANGED <<Globals, FitCallsLeft>>
    /\ pc' = "Returned"
    /\ UNCHANGED <<outsideSearch, fd, OutAreaNodes, Areas, AreaNext, Stack, Depth,
                   Area, OutArea, attempts, trialStart>>

\* Mutant of ReturnedAreas: the best areas are copied back before the test
\* that a best placement exists.
ReturnedAreas_Unconditional(g, areasToFit) == QSortOut(g.BestFittedAreas)

\* lines 1205-1209 and 1216-1217: the lists AreasToFit can hold when fitAreas
\* returns from a search: the best placement, post-sorted, or what it held
ReturnedAreas(g, areasToFit) ==
    IF g.BestOutSize # NoBestGlobal THEN QSortOut(g.BestFittedAreas) ELSE {areasToFit}

\* lines 1205-1217: back from fitUnfittedAreas
fitAreasReturn ==
    /\ pc = "Returned"
    /\ AreasToFit' \in ReturnedAreas(Globals, AreasToFit)
    /\ IF Globals.BestOutSize # NoBestGlobal
       THEN /\ OutImages' = Globals.BestOutImages
            /\ FitQuality' = [num |-> 100 * MinOutSize, den |-> Globals.BestOutSize,
                              valid |-> TRUE]
            /\ result' = TRUE
       ELSE /\ OutImages' = <<>>
            /\ result' = FALSE
            /\ UNCHANGED FitQuality
    /\ pc' = "done"
    /\ UNCHANGED <<aMaxOutImageWidth, aMaxOutImageHeight, aMaxOutImageSize,
                   MinOutImageCount, FitCallsLimit, MinOutSize, Globals, fd,
                   OutAreaNodes, fitterVars, histVars, attempts, trialStart,
                   others>>

Next ==
    \/ fitAreasTrivial
    \/ fitAreasSearch
    \/ LoopExit
    \/ Refill
    \/ Detach
    \/ OutAreasExhausted
    \/ AddOutImage
    \/ SkipOutArea
    \/ RejectOutArea
    \/ PlaceLastArea
    \/ PlaceAreaConfig1
    \/ CodeLoc2Config2
    \/ CodeLoc2Skip
    \/ CodeLoc3
    \/ Reattach
    \/ PopStack
    \/ ReturnBudget
    \/ fitAreasReturn

Spec == Init /\ [][Next]_vars

\* The calls with one seed image, an empty OutImages and the widest limits,
\* with every budget and both size limits.  The call runs on: fitAreas is
\* sequential code, every step that can be taken is taken.
InitLive ==
    /\ Init
    /\ MinOutImageCount = 1 /\ OutImages = <<>>
    /\ aMaxOutImageWidth = MaxDim /\ aMaxOutImageHeight = MaxDim
SpecLive == InitLive /\ [][Next]_vars /\ WF_vars(Next)

\* ------------------------------------------------------ a second call
\* The caller calls fitAreas (lines 1085-1089) once more after the first call
\* has returned: every local of fitAreas is new, firstCall keeps what the first
\* call was given and what it returned.
CallAgain(kind, sizeFactor, areas, imgs, W, H, size, limit) ==
    /\ pc = "done"
    /\ firstCall.kind = "none"
    /\ firstCall' = [kind |-> kind, result |-> result, order |-> Objects(Areas),
                     AreasIn |-> AreasIn, AreasToFit |-> AreasToFit,
                     OutImages |-> OutImages, FitCallsLimit |-> FitCallsLimit,
                     sizeFactor |-> sizeFactor]
    /\ pc' = "fitAreas"
    /\ AreasToFit' = areas
    /\ OutImages' = imgs
    /\ aMaxOutImageWidth' = W
    /\ aMaxOutImageHeight' = H
    /\ aMaxOutImageSize' = size
    /\ FitCallsLimit' = limit
    /\ FitQuality' = [num |-> 0, den |-> 0, valid |-> FALSE]
    /\ result' = "none"
    /\ MinOutSize' = 0
    /\ Globals' = [FitCallsLimit |-> 0, FitCallsLeft |-> 0, BestOutSize |-> 0,
                   BestOutImageCount |-> 0, BestFittedAreas |-> <<>>,
                   BestOutImages |-> <<>>]
    /\ fd' = [OutImages |-> <<>>, OutImageCount |-> 0, OutSize |-> 0,
              BestOutSize |-> 0, BestOutImageCount |-> 0]
    /\ OutAreaNodes' = <<>>
    /\ MaxOutImageSize' = 0
    /\ FitCallsLeft' = 0
    /\ Areas' = <<>>
    /\ AreaNext' = <<>>
    /\ Stack' = <<>>
    /\ Depth' = -1
    /\ Area' = NULL
    /\ OutArea' = NULL
    /\ AreasIn' = areas
    /\ OutImagesIn' = imgs
    /\ aMaxOutImageSizeIn' = size
    /\ attempts' = 0
    /\ trialStart' = <<>>
    /\ UNCHANGED <<MinOutImageCount, others>>

\* the budgets of the model
Budgets == (0..MaxFitCalls) \cup {AmpleFitCalls}

\* the same call with a larger FitCallsLimit
CallWithLargerBudget ==
    \E limit \in Budgets :
        /\ limit > FitCallsLimit
        /\ CallAgain("budget", 1, AreasIn, OutImagesIn, aMaxOutImageWidth,
                     aMaxOutImageHeight, aMaxOutImageSizeIn, limit)

\* the areas of q with every Width and Height multiplied by k
ScaleAreas(q, k) ==
    [i \in 1..Len(q) |-> [q[i] EXCEPT !.Width = @ * k, !.Height = @ * k]]

\* aMaxOutImageSize multiplied by f; 0x7FFFFFFF, the largest int, stays
ScaleSize(size, f) == IF size = NoBestGlobal THEN NoBestGlobal ELSE size * f

\* the same call with every Width and Height and the width and height limits
\* multiplied by ScaleFactor, and the size limit by ScaleFactor or by its
\* square
CallScaled ==
    \E f \in {ScaleFactor, ScaleFactor * ScaleFactor} :
        CallAgain("scaled", f, ScaleAreas(AreasIn, ScaleFactor), OutImagesIn,
                  aMaxOutImageWidth * ScaleFactor, aMaxOutImageHeight * ScaleFactor,
                  ScaleSize(aMaxOutImageSizeIn, f), FitCallsLimit)

\* the calls that pass an empty OutImages
InitNoSeed == Init /\ OutImages = <<>>
SpecScaled == InitNoSeed /\ [][Next \/ CallScaled]_vars

\* fitAreas is called on the lists a successful call returned, with the same
\* limits, MinOutImageCount and FitCallsLimit
CallOnOwnOutput ==
    /\ pc = "done"
    /\ result = TRUE
    /\ CallAgain("rerun", 1, AreasToFit, OutImages, aMaxOutImageWidth,
                 aMaxOutImageHeight, aMaxOutImageSizeIn, FitCallsLimit)

SpecRerun == Init /\ [][Next \/ CallOnOwnOutput]_vars

\* The example call, together with the calls on at most two areas
InitExampleOrShort == InitExample \/ (Init /\ Len(AreasToFit) <= 2)
SpecExample == InitExampleOrShort /\ [][Next]_vars

\* the calls that pass an empty OutImages and a budget that can be raised
InitBudget == InitNoSeed /\ FitCallsLimit <= MaxFitCalls
SpecBudget == InitBudget /\ [][Next \/ CallWithLargerBudget]_vars

\* ------------------------------------------------------- several Fitters
\* The class is designed for several fitting threads, each on its own
\* CAreaFitter object (lines 814-821) and all on one CGlobals (lines 1221-1243,
\* "shared among all threads"); the synchronizer is commented out (lines
\* 1228, 1465, 1568 and 1829) and fitAreas creates one Fitter (line 1195).
\* What follows runs fitUnfittedAreas as it is written for two Fitters made
\* by the constructor call of lines 1197-1198, each with a CFitData of its
\* own set up as in lines 1156-1189.  Without the synchronizer a thread can
\* lose the processor between any two accesses of Globals.

\* the running Fitter: the CAreaFitter object, its CFitData and its position
Fitter ==
    [pc |-> pc, fd |-> fd, OutAreaNodes |-> OutAreaNodes,
     FitCallsLeft |-> FitCallsLeft, Areas |-> Areas, AreaNext |-> AreaNext,
     Stack |-> Stack, Depth |-> Depth, Area |-> Area, OutArea |-> OutArea,
     trialStart |-> trialStart]

\* lines 1114-1203 with two Fitters: both are set up alike, one starts
fitAreasFitters == fitAreasSetUp /\ others' = <<Fitter'>>

\* lines 1460-1479: the local budget is used up and none is taken: the local
\* bounds are refreshed, or the shared budget is empty too
RefillNoTake == Refill /\ pc' # "Line1493"

\* lines 1481-1483 and 1488: the local budget is used up and the Fitter
\* writes its slice of the shared budget into its FitCallsLeft
RefillLoad ==
    /\ pc = "CodeLoc1"
    /\ s.Area # NULL /\ ~BoundsExceeded(fd)
    /\ FitCallsLeft = 0
    /\ ~(\/ fd.BestOutSize > Globals.BestOutSize
         \/ fd.BestOutImageCount > Globals.BestOutImageCount)
    /\ Globals.FitCallsLeft # 0
    /\ FitCallsLeft' = RefillSlice(Globals.FitCallsLeft)
    /\ pc' = IF Globals.FitCallsLeft >= FitCallsSlice THEN "Line1484" ELSE "Line1489"
    /\ UNCHANGED <<outsideSearch, Globals, fd, OutAreaNodes, Areas, AreaNext, Stack,
                   Depth, Area, OutArea, attempts, trialStart>>

\* line 1484 or line 1489: the slice is taken out of the shared budget
RefillStore ==
    /\ pc \in {"Line1484", "Line1489"}
    /\ Globals' = [Globals EXCEPT
                      !.FitCallsLeft = IF pc = "Line1484" THEN @ - FitCallsSlice ELSE 0]
    /\ pc' = "Line1493"
    /\ UNCHANGED <<outsideSearch, fd, OutAreaNodes, FitCallsLeft, Areas, AreaNext,
                   Stack, Depth, Area, OutArea, attempts, trialStart>>

\* the positions before an access of Globals at which the model lets the
\* running thread lose the processor
SwitchPcs == {"CodeLoc1", "Line1484", "Line1489", "Returned"}

\* the running thread loses the processor to the thread of the other Fitter
SwitchFitter ==
    /\ others # <<>>
    /\ pc \in SwitchPcs
    /\ others[1].pc # "Returned"
    /\ others' = <<Fitter>>
    /\ pc' = others[1].pc
    /\ fd' = others[1].fd
    /\ OutAreaNodes' = others[1].OutAreaNodes
    /\ FitCallsLeft' = others[1].FitCallsLeft
    /\ Areas' = others[1].Areas
    /\ AreaNext' = others[1].AreaNext
    /\ Stack' = others[1].Stack
    /\ Depth' = others[1].Depth
    /\ Area' = others[1].Area
    /\ OutArea' = others[1].OutArea
    /\ trialStart' = others[1].trialStart
    /\ UNCHANGED <<callerVars, Globals, MaxOutImageSize, histVars, attempts>>

\* lines 1205-1217, once both Fitters have returned
FittersReturn ==
    /\ others # <<>>
    /\ others[1].pc = "Returned"
    /\ fitAreasReturn

NextFitters ==
    \/ fitAreasFitters
    \/ LoopExit
    \/ RefillNoTake
    \/ RefillLoad
    \/ RefillStore
    \/ Detach
    \/ OutAreasExhausted
    \/ AddOutImage
    \/ SkipOutArea
    \/ RejectOutArea
    \/ PlaceLastArea
    \/ PlaceAreaConfig1
    \/ CodeLoc2Config2
    \/ CodeLoc2Skip
    \/ CodeLoc3
    \/ Reattach
    \/ PopStack
    \/ ReturnBudget
    \/ SwitchFitter
    \/ FittersReturn

\* the calls on two or more areas with the widest limits and a small budget
InitFitters ==
    \E areas \in Inputs, limit \in 1..MaxFitCalls :
        /\ Len(areas) >= 2
        /\ InitialState(areas, <<>>, MaxDim, MaxDim, NoBestGlobal, 1, limit)
SpecFitters == InitFitters /\ [][NextFitters]_vars

\* the calls with a small budget, under every combination of the limits
InitTight ==
    \E areas \in Inputs, W \in Limits, H \in Limits, size \in OutImageSizes,
       minCount \in 1..MaxMinOutImageCount, limit \in 0..MaxFitCalls :
        InitialState(areas, <<>>, W, H, size, minCount, limit)
SpecTight == InitTight /\ [][Next]_vars

\* ================================================================== claims
Done == pc = "done"
Success == pc = "done" /\ result = TRUE
Failure == pc = "done" /\ result = FALSE
\* a search was started (two or more areas) and its data exist
Searching == Len(AreasIn) >= 2 /\ pc # "fitAreas"

SetMax(S) == IF S = {} THEN 0 ELSE CHOOSE m \in S : \A x \in S : x <= m
IndexOf(q) == 1..Len(q)

\* the pixels of the rectangle [OutX, OutX+Width) x [OutY, OutY+Height)
Pixels(a) ==
    (a.OutX .. (a.OutX + a.Width - 1)) \X (a.OutY .. (a.OutY + a.Height - 1))

\* C1: after every fitAreas call that returns true, two distinct returned
\* areas on the same output image have rectangles that do not overlap.
C1_NoOverlap ==
    Success =>
        \A i, j \in IndexOf(AreasToFit) :
            (i # j /\ AreasToFit[i].OutImage = AreasToFit[j].OutImage)
                => Pixels(AreasToFit[i]) \cap Pixels(AreasToFit[j]) = {}

\* a search returned two non-empty areas side by side on one output image
C1_Witness ==
    /\ Success
    /\ \E i, j \in IndexOf(AreasToFit) :
        /\ i # j
        /\ AreasToFit[i].OutImage = AreasToFit[j].OutImage
        /\ Pixels(AreasToFit[i]) # {} /\ Pixels(AreasToFit[j]) # {}
        /\ AreasToFit[i].OutY = AreasToFit[j].OutY

\* C2: after every fitAreas call that returns true, every returned area
\* names an output image of the returned list and lies inside it:
\* 0 <= OutX, 0 <= OutY, OutX + Width <= image Width, OutY + Height <= image
\* Height.
C2_Containment ==
    Success =>
        \A i \in IndexOf(AreasToFit) :
            LET a == AreasToFit[i]
            IN  /\ a.OutImage >= 0 /\ a.OutImage < Len(OutImages)
                /\ a.OutX >= 0 /\ a.OutY >= 0
                /\ a.OutX + a.Width <= OutImages[a.OutImage + 1].Width
                /\ a.OutY + a.Height <= OutImages[a.OutImage + 1].Height

\* a search returned an area away from the origin, on an image after the first
C2_Witness ==
    /\ Success
    /\ \E i, j \in IndexOf(AreasToFit) :
        /\ AreasToFit[i].OutImage > 0
        /\ AreasToFit[j].OutX + AreasToFit[j].OutY > 0

\* the (Object, Width, Height) part of an area record
Identity(a) == [Object |-> a.Object, Width |-> a.Width, Height |-> a.Height]
\* how often the identity r occurs in the list q
Count(q, r) == Cardinality({i \in IndexOf(q) : Identity(q[i]) = r})

\* C3: after every fitAreas call that returns true, the multiset of returned
\* (Object, Width, Height) records equals that of the input: no area is
\* dropped, duplicated or resized, and each keeps its Object handle.
C3_Coverage ==
    Success =>
        /\ Len(AreasToFit) = Len(AreasIn)
        /\ \A i \in IndexOf(AreasIn) :
            Count(AreasToFit, Identity(AreasIn[i])) = Count(AreasIn, Identity(AreasIn[i]))

\* a search returned the areas in another order than they were passed in
C3_Witness ==
    /\ Success
    /\ Len(AreasIn) = MaxAreas
    /\ \E i \in IndexOf(AreasIn) : AreasToFit[i].Object # AreasIn[i].Object

\* C4: after every fitAreas call that returns true, every returned output
\* image has Width <= max(aMaxOutImageWidth, widest input area), Height <=
\* max(aMaxOutImageHeight, tallest input area), Width*Height <=
\* max(aMaxOutImageSize, largest input area) and Size = Width*Height.
C4_ImageLimits ==
    Success =>
        \A k \in IndexOf(OutImages) :
            LET im == OutImages[k]
            IN  /\ im.Width <= Max(aMaxOutImageWidth,
                                   SetMax({AreasIn[i].Width : i \in IndexOf(AreasIn)}))
                /\ im.Height <= Max(aMaxOutImageHeight,
                                    SetMax({AreasIn[i].Height : i \in IndexOf(AreasIn)}))
                /\ im.Width * im.Height
                     <= Max(aMaxOutImageSizeIn,
                            SetMax({AreasIn[i].Width * AreasIn[i].Height :
                                        i \in IndexOf(AreasIn)}))
                /\ im.Size = im.Width * im.Height

\* a search under the small size limit returned more images than it was
\* seeded with, one of them as large as the limit allows
C4_Witness ==
    /\ Success
    /\ aMaxOutImageSizeIn = SmallOutImageSize
    /\ Len(AreasIn) >= 2
    /\ Len(OutImages) > MinOutImageCount
    /\ \E k \in IndexOf(OutImages) :
        OutImages[k].Size = Max(SmallOutImageSize,
                                SetMax({AreasIn[i].Width * AreasIn[i].Height :
                                            i \in IndexOf(AreasIn)}))

\* C5: after every fitAreas call that returns true, for any number of input
\* areas including 0 and 1, the returned OutImages list has at least
\* MinOutImageCount entries.
C5_ImageCountFloor == Success => Len(OutImages) >= MinOutImageCount

\* C6: when fitAreas returns false, OutImages is empty and every input area
\* (known by its Object) has the Width, Height, OutImage, OutX and OutY it had
\* before the call.
C6_FailureUntouched ==
    Failure =>
        /\ OutImages = <<>>
        /\ Len(AreasToFit) = Len(AreasIn)
        /\ \A i \in IndexOf(AreasIn) : \E j \in IndexOf(AreasToFit) :
            AreasToFit[j] = AreasIn[i]

\* a failed search that had placed an area in the Fitter's own copy, with a
\* caller-supplied output image to clear
C6_Witness ==
    /\ Failure
    /\ OutImagesIn # <<>>
    /\ \E i \in IndexOf(Areas) : Areas[i].OutImage # StaleOut

C8_SeedFromCaller ==
    Searching =>
        \A i \in 0..(MinOutImageCount - 1) :
            LET r == OutAreaNodes[i + 1]
                given == i < Len(OutImagesIn)
            IN  /\ r.x = 0 /\ r.y = 0 /\ r.OutImage = i
                /\ r.Width = IF given /\ OutImagesIn[i + 1].Width # 0
                             THEN OutImagesIn[i + 1].Width ELSE aMaxOutImageWidth
                /\ r.Height = IF given /\ OutImagesIn[i + 1].Height # 0
                              THEN OutImagesIn[i + 1].Height ELSE aMaxOutImageHeight

\* C9: called with one preseeded output image W x H and a single area that
\* fits inside it, fitAreas places the area in image 0 and returns an image 0
\* not smaller than W x H.
C9_PreseededKept ==
    (/\ Done
     /\ Len(AreasIn) = 1 /\ Len(OutImagesIn) = 1
     /\ AreasIn[1].Width <= OutImagesIn[1].Width
     /\ AreasIn[1].Height <= OutImagesIn[1].Height)
    => /\ result = TRUE
       /\ AreasToFit[1].OutImage = 0
       /\ Len(OutImages) >= 1
       /\ OutImages[1].Width >= OutImagesIn[1].Width
       /\ OutImages[1].Height >= OutImagesIn[1].Height

\* the budget of a search is conserved
BudgetInv ==
    Searching =>
        /\ Globals.FitCallsLeft >= 0
        /\ FitCallsLeft >= 0
        /\ Globals.FitCallsLeft + FitCallsLeft + attempts = FitCallsLimit
        /\ attempts <= FitCallsLimit

\* C10: during one fitAreas call the shared and the local FitCallsLeft are
\* both >= 0 and shared + local + attempts made = FitCallsLimit at every step,
\* so the attempts never exceed FitCallsLimit; a refill moves min(512, shared)
\* from the shared counter to the local one, and an attempt takes exactly 1
\* from the local one.
C10_Budget ==
    [][/\ BudgetInv'
       /\ (Searching /\ FitCallsLeft' > FitCallsLeft) =>
            /\ FitCallsLeft = 0
            /\ FitCallsLeft' = Min(FitCallsSlice, Globals.FitCallsLeft)
            /\ Globals'.FitCallsLeft = Globals.FitCallsLeft - FitCallsLeft'
            /\ attempts' = attempts
       /\ attempts' # attempts =>
            /\ attempts' = attempts + 1
            /\ FitCallsLeft' = FitCallsLeft - 1
            /\ Globals'.FitCallsLeft = Globals.FitCallsLeft]_vars

\* a search used up a budget of MaxFitCalls attempts, drawn in one refill
C10_Witness ==
    /\ Searching
    /\ FitCallsLimit = MaxFitCalls
    /\ attempts = MaxFitCalls
    /\ FitCallsLeft = 0 /\ Globals.FitCallsLeft = 0

\* a placement: every area of q names an image of imgs and lies inside it
Contained(q, imgs) ==
    \A i \in IndexOf(q) :
        /\ q[i].OutImage >= 0 /\ q[i].OutImage < Len(imgs)
        /\ q[i].OutX >= 0 /\ q[i].OutY >= 0
        /\ q[i].OutX + q[i].Width <= imgs[q[i].OutImage + 1].Width
        /\ q[i].OutY + q[i].Height <= imgs[q[i].OutImage + 1].Height
\* no two areas of q on one image share a pixel
Disjoint(q) ==
    \A i, j \in IndexOf(q) :
        (i # j /\ q[i].OutImage = q[j].OutImage) => Pixels(q[i]) \cap Pixels(q[j]) = {}
\* q holds the input areas, each once
AllInputAreas(q) ==
    /\ Len(q) = Len(AreasIn)
    /\ \A i \in IndexOf(AreasIn) :
        Count(q, Identity(AreasIn[i])) = Count(AreasIn, Identity(AreasIn[i]))
SumSizes(imgs) == SumSeq([k \in IndexOf(imgs) |-> imgs[k].Size])

\* C11: at every point of a search, whenever Globals.BestOutSize differs from
\* the sentinel 0x7FFFFFFF, BestFittedAreas is a placement of all input areas,
\* BestOutImages has exactly BestOutImageCount entries whose Sizes sum to
\* BestOutSize, and the two satisfy containment and non-overlap; a call that
\* has returned true has returned such a placement.
C11_BestIsComplete ==
    /\ (Searching /\ Globals.BestOutSize # NoBestGlobal) =>
        /\ AllInputAreas(Globals.BestFittedAreas)
        /\ Len(Globals.BestOutImages) = Globals.BestOutImageCount
        /\ SumSizes(Globals.BestOutImages) = Globals.BestOutSize
        /\ Contained(Globals.BestFittedAreas, Globals.BestOutImages)
        /\ Disjoint(Globals.BestFittedAreas)
    /\ (Searching /\ Done) =>
        /\ result = (Globals.BestOutSize # NoBestGlobal)
        /\ result = TRUE =>
            /\ OutImages = Globals.BestOutImages
            /\ AllInputAreas(AreasToFit)
            /\ Contained(AreasToFit, OutImages)
            /\ Disjoint(AreasToFit)

\* in the middle of a search a best placement is published while the Fitter's
\* working copy holds another, partly undone one, and the budget has run out
C11_Witness ==
    /\ Searching /\ ~Done
    /\ FitCallsLimit >= 1
    /\ Globals.BestOutSize # NoBestGlobal
    /\ Globals.BestFittedAreas # Areas
    /\ AreaNext[0] # NULL
    /\ FitCallsLeft = 0 /\ Globals.FitCallsLeft = 0

\* C12: on every successful return fit_quality lies in (0, 100]: the sum of
\* Width*Height over the input areas is strictly positive and not greater
\* than the (nonzero) best summed output size it is divided by.
C12_QualityRange ==
    Success =>
        /\ FitQuality.valid
        /\ FitQuality.den > 0
        /\ FitQuality.num > 0
        /\ FitQuality.num <= 100 * FitQuality.den

\* the images of the search that are in use
CurrentOutImages == SubSeq(fd.OutImages, 1, fd.OutImageCount)
SumAreas(imgs) == SumSeq([k \in IndexOf(imgs) |-> imgs[k].Width * imgs[k].Height])

\* C13: during a search fd.OutSize is the sum of Size over the OutImageCount
\* current images and each of these has Size = Width*Height; on a successful
\* return from a search fit_quality is 100 * (sum of Width*Height over the
\* input areas) / Globals.BestOutSize, and Globals.BestOutSize is the sum of
\* Width*Height over the returned OutImages.
C13_QualityTerms ==
    /\ Searching =>
        /\ fd.OutSize = SumSizes(CurrentOutImages)
        /\ \A k \in IndexOf(CurrentOutImages) :
            CurrentOutImages[k].Size = CurrentOutImages[k].Width * CurrentOutImages[k].Height
    /\ (Searching /\ Success) =>
        /\ FitQuality.valid
        /\ FitQuality.num = 100 * SumAreaSizes(AreasIn)
        /\ FitQuality.den = Globals.BestOutSize
        /\ Globals.BestOutSize = SumAreas(OutImages)

\* a search returned two images in use and a quality below 100
C13_Witness ==
    /\ Searching /\ Success
    /\ Len(OutImages) = 2
    /\ OutImages[1].Size > 0 /\ OutImages[2].Size > 0
    /\ FitQuality.num > 0
    /\ FitQuality.num < 100 * FitQuality.den

\* (OutImage, OutX, OutY) of a is not after that of b in lexicographic order
LexLeq(a, b) ==
    \/ a.OutImage < b.OutImage
    \/ a.OutImage = b.OutImage /\ a.OutX < b.OutX
    \/ a.OutImage = b.OutImage /\ a.OutX = b.OutX /\ a.OutY <= b.OutY

\* C14: after every fitAreas call that returns true, the returned area list
\* is in non-decreasing lexicographic order of (OutImage, OutX, OutY).
C14_ReturnedOrder ==
    Success =>
        \A i, j \in IndexOf(AreasToFit) :
            i < j => LexLeq(AreasToFit[i], AreasToFit[j])

\* a search returned MaxAreas areas whose best placement was found in another
\* order, with two areas of one image side by side
C14_Witness ==
    /\ Success
    /\ Len(AreasToFit) = MaxAreas
    /\ Globals.BestFittedAreas # AreasToFit
    /\ \E i \in 1..(MaxAreas - 1) :
        /\ AreasToFit[i].OutImage = AreasToFit[i + 1].OutImage
        /\ AreasToFit[i].OutX < AreasToFit[i + 1].OutX
        /\ AreasToFit[i].OutY > AreasToFit[i + 1].OutY

\* C15: for the same areas in the same order and the same limits, a call with
\* a larger FitCallsLimit is never worse: if the call with the smaller limit
\* returns true, the call with the larger limit returns true too, and its
\* summed output size is not greater.
C15_BudgetMonotone ==
    (Done /\ firstCall.kind = "budget" /\ firstCall.result = TRUE) =>
        /\ result = TRUE
        /\ SumSizes(OutImages) <= SumSizes(firstCall.OutImages)

\* the larger budget found a strictly smaller packing than the smaller one,
\* which had found one
C15_Witness ==
    /\ Done
    /\ firstCall.kind = "budget" /\ firstCall.result = TRUE
    /\ Len(AreasIn) >= 2
    /\ firstCall.FitCallsLimit < FitCallsLimit
    /\ result = TRUE
    /\ SumSizes(OutImages) < SumSizes(firstCall.OutImages)

\* the placement of the second call is that of the first call scaled by k:
\* the same success flag and, per Object, the same OutImage and k times the
\* OutX and OutY
ScaledPlacement(k) ==
    /\ result = firstCall.result
    /\ result = TRUE =>
        /\ Len(AreasToFit) = Len(firstCall.AreasToFit)
        /\ \A i \in IndexOf(firstCall.AreasToFit) : \E j \in IndexOf(AreasToFit) :
            /\ AreasToFit[j].Object = firstCall.AreasToFit[i].Object
            /\ AreasToFit[j].OutImage = firstCall.AreasToFit[i].OutImage
            /\ AreasToFit[j].OutX = k * firstCall.AreasToFit[i].OutX
            /\ AreasToFit[j].OutY = k * firstCall.AreasToFit[i].OutY

\* C16 as stated: multiplying every input Width and Height and the three
\* limits aMaxOutImageWidth, aMaxOutImageHeight and aMaxOutImageSize by the
\* same k > 0 yields the same success flag and the same placements scaled by k.
C16_ScaleInvariance ==
    (Done /\ firstCall.kind = "scaled" /\ firstCall.sizeFactor = ScaleFactor)
        => ScaledPlacement(ScaleFactor)

\* C16 amended: multiplying every input Width and Height and the limits
\* aMaxOutImageWidth and aMaxOutImageHeight by k > 0, and aMaxOutImageSize by
\* k*k, yields the same success flag and the same placements scaled by k.
C16_ScaleInvarianceSquare ==
    (Done /\ firstCall.kind = "scaled"
          /\ firstCall.sizeFactor = ScaleFactor * ScaleFactor)
        => ScaledPlacement(ScaleFactor)

\* a scaled call under a size limit that forces more images than were seeded
\* returned a placement away from the origin
C16_Witness ==
    /\ Done /\ result = TRUE
    /\ firstCall.kind = "scaled"
    /\ firstCall.sizeFactor = ScaleFactor * ScaleFactor
    /\ aMaxOutImageSizeIn = SmallOutImageSize * ScaleFactor * ScaleFactor
    /\ Len(OutImages) > MinOutImageCount
    /\ \E i \in IndexOf(AreasToFit) : AreasToFit[i].OutX + AreasToFit[i].OutY > 0

SameSortedOrder == Len(AreasIn) >= 2 => Objects(Areas) = firstCall.order
DistinctWidths(q) == \A i, j \in IndexOf(q) : i # j => q[i].Width # q[j].Width

C18_ForcedSplit ==
    (/\ Done
     /\ Len(AreasIn) >= 2
     /\ \A i \in IndexOf(AreasIn) :
            /\ AreasIn[i].Width = aMaxOutImageWidth
            /\ AreasIn[i].Height = aMaxOutImageHeight
     /\ MinOutImageCount = 1
     /\ FitCallsLimit >= Len(AreasIn))
    => /\ result = TRUE
       /\ Len(OutImages) = Len(AreasIn)
       /\ \A k \in IndexOf(OutImages) :
            /\ OutImages[k] = COutImage(aMaxOutImageWidth, aMaxOutImageHeight,
                                        aMaxOutImageWidth * aMaxOutImageHeight)
            /\ Cardinality({i \in IndexOf(AreasToFit) :
                                AreasToFit[i].OutImage = k - 1}) = 1
       /\ \A i \in IndexOf(AreasToFit) :
            AreasToFit[i].OutX = 0 /\ AreasToFit[i].OutY = 0
       /\ FitQuality.valid /\ FitQuality.den > 0
       /\ FitQuality.num = 100 * FitQuality.den

\* MaxAreas areas of the full image size were split over MaxAreas images with
\* a budget of exactly MaxAreas attempts
C18_Witness ==
    /\ Done /\ result = TRUE
    /\ Len(AreasIn) = MaxAreas
    /\ \A i \in IndexOf(AreasIn) :
            /\ AreasIn[i].Width = aMaxOutImageWidth
            /\ AreasIn[i].Height = aMaxOutImageHeight
    /\ MinOutImageCount = 1
    /\ FitCallsLimit = MaxAreas
    /\ attempts = MaxAreas
    /\ Len(OutImages) = MaxAreas

\* the call of src/example.cpp
ExampleCall ==
    /\ AreasIn = ExampleAreas
    /\ OutImagesIn = <<>>
    /\ aMaxOutImageWidth = ExampleLimit
    /\ aMaxOutImageHeight = ExampleLimit
    /\ aMaxOutImageSizeIn = NoBestGlobal
    /\ MinOutImageCount = 1
    /\ FitCallsLimit = ExampleFitCalls

\* C19: on the example input (areas 50x30, 250x60, 30x260, 80x80, limits
\* 300 x 300 with no size limit, one seed image, 10000 attempts) fitAreas
\* returns true, all four areas are placed in one single output image, and
\* the Size of that image is at most 300 * 300.
C19_Example ==
    (Done /\ ExampleCall)
    => /\ result = TRUE
       /\ Len(OutImages) = 1
       /\ AllInputAreas(AreasToFit)
       /\ \A i \in IndexOf(AreasToFit) : AreasToFit[i].OutImage = 0
       /\ Contained(AreasToFit, OutImages)
       /\ Disjoint(AreasToFit)
       /\ OutImages[1].Size = OutImages[1].Width * OutImages[1].Height
       /\ OutImages[1].Size <= ExampleLimit * ExampleLimit

\* the example call has returned, with the image the compiled example prints
C19_Witness ==
    /\ Done /\ ExampleCall
    /\ result = TRUE
    /\ OutImages = <<COutImage(280, 260, 280 * 260)>>

\* a pass of the region loop of the current frame has ended: the code is at
\* line 1503 again or has left the region loop for line 1804
TrialEnded ==
    /\ Searching
    /\ pc \in {"OutAreaLoop", "Reattach"}
    /\ trialStart[Depth] # NoTrial

\* C20: when the trial of one (area, free region) pair of a frame is finished,
\* with every frame pushed and popped beneath it for configurations 1 and 2,
\* the free-region chain (members and order), the Width, Height and Size of
\* every output image, fd.OutSize and fd.OutImageCount are what they were
\* before that trial began.
C20_BacktrackRestores ==
    TrialEnded => PackingState(OutAreaNodes, fd) = trialStart[Depth]

\* the root frame is back at the region loop after a trial that grew an
\* image and pushed frames two deep, whose own trials began in other packing
\* states
C20_Witness ==
    /\ TrialEnded
    /\ Depth = 0
    /\ Len(AreasIn) = MaxAreas
    /\ s.DoOutImageRestore
    /\ trialStart[1] # NoTrial /\ trialStart[1] # trialStart[0]
    /\ trialStart[2] # NoTrial /\ trialStart[2] # trialStart[1]
    /\ trialStart[1].OutSize > trialStart[0].OutSize
    /\ PackingState(OutAreaNodes, fd) = trialStart[0]

\* the positions of fitUnfittedAreas
SearchPcs == {"CodeLoc1", "Line1493", "OutAreaLoop", "Line1540", "CodeLoc2",
              "CodeLoc3", "Reattach", "Unwind"}
\* the current frame has detached Area (lines 1495 to 1804)
AreaDetachedHere == pc \in {"OutAreaLoop", "Line1540", "CodeLoc2", "CodeLoc3", "Reattach"}
\* the areas the frames of the current search path have taken out of the
\* chain: one for each frame below the current one, and Area
DetachedOnPath ==
    {Stack[d].Area : d \in 0..(Depth - 1)} \cup (IF AreaDetachedHere THEN {Area} ELSE {})
UnfittedChain == Chain(AreaNext, AreaNext[0])
RangeOf(q) == {q[i] : i \in 1..Len(q)}

\* C21: at every search step the unfitted-area chain holds exactly the areas
\* that no frame of the current search path has taken out, in the order of
\* the sorted array, hence in non-increasing Width; so re-attaching an area
\* gives back the chain as it was before the detach, and after a pop the
\* parent finds the chain it had at the push.
C21_UnfittedChain ==
    (Searching /\ pc \in SearchPcs) =>
        /\ RangeOf(UnfittedChain) = (1..Len(Areas)) \ DetachedOnPath
        /\ Cardinality(DetachedOnPath) = Depth + (IF AreaDetachedHere THEN 1 ELSE 0)
        /\ \A i \in 1..(Len(UnfittedChain) - 1) :
            /\ UnfittedChain[i] < UnfittedChain[i + 1]
            /\ Areas[UnfittedChain[i]].Width >= Areas[UnfittedChain[i + 1]].Width

\* the root frame is back after the pop of a frame that tried regions for
\* the areas left in the chain, and the chain is again all areas but Area
C21_Witness ==
    /\ Searching /\ pc = "CodeLoc2" /\ Depth = 0
    /\ Len(Areas) = Len(UnfittedChain) + 1
    /\ trialStart[1] # NoTrial
    /\ Area = 2
    /\ UnfittedChain = <<1, 3>>
    /\ Areas[1].Width > Areas[3].Width

\* the free-region chain behind fd -> OutAreas
FreeRegions == OutAreaChain(OutAreaNodes, OutAreaNodes[0].Next)
\* the frames of the current path whose current trial made a new output image
AddingFrames ==
    {d \in 0..Depth : /\ Stack[d].WasOutImageAdded
                      /\ d < Depth \/ pc \in {"Line1540", "CodeLoc2", "CodeLoc3"}}
\* the region output image k started with: BaseOutAreas[ k + 1 ] for a seed
\* image, NewOutAreas[ 2 ] of the frame that made it for a synthesized one
ImageExtents(k) ==
    IF k < MinOutImageCount THEN {OutAreaNodes[k + 1]}
    ELSE {OutAreaNodes[NewOutAreaPtr(d, 2)] : d \in
            {e \in AddingFrames : OutAreaNodes[NewOutAreaPtr(e, 2)].OutImage = k}}
\* the areas placed on the current path: those of the frames below, and Area
\* once lines 1558-1560 have placed it
PlacedOnPath ==
    {Stack[d].Area : d \in 0..(Depth - 1)}
        \cup (IF pc \in {"CodeLoc2", "CodeLoc3"} THEN {Area} ELSE {})
\* region r and placed area a share a pixel
RegionOverlapsArea(r, a) ==
    /\ r.OutImage = a.OutImage
    /\ r.Width > 0 /\ r.Height > 0 /\ a.Width > 0 /\ a.Height > 0
    /\ r.x < a.OutX + a.Width /\ a.OutX < r.x + r.Width
    /\ r.y < a.OutY + a.Height /\ a.OutY < r.y + r.Height

\* C22: at every search step every free region of the chain has x >= 0 and
\* y >= 0, lies inside the region its output image started with (the seed
\* region or the synthesized one), and shares no pixel with an area placed
\* on that image on the current path.
C22_FreeRegions ==
    (Searching /\ pc \in SearchPcs) =>
        \A i \in IndexOf(FreeRegions) :
            LET r == FreeRegions[i]
            IN  /\ r.x >= 0 /\ r.y >= 0
                /\ r.OutImage >= 0 /\ r.OutImage < fd.OutImageCount
                /\ Cardinality(ImageExtents(r.OutImage)) = 1
                /\ \A e \in ImageExtents(r.OutImage) :
                    /\ e.x = 0 /\ e.y = 0
                    /\ r.x + r.Width <= e.Width
                    /\ r.y + r.Height <= e.Height
                /\ \A a \in PlacedOnPath : ~RegionOverlapsArea(r, Areas[a])

\* two areas are placed on one image and a free region of that image, away
\* from both axes, is in the chain
C22_Witness ==
    /\ Searching /\ pc \in SearchPcs
    /\ Cardinality(PlacedOnPath) = 2
    /\ \E i \in IndexOf(FreeRegions) :
        /\ FreeRegions[i].x > 0 /\ FreeRegions[i].y > 0
        /\ FreeRegions[i].Width > 0 /\ FreeRegions[i].Height > 0
        /\ \A a \in PlacedOnPath :
            /\ Areas[a].OutImage = FreeRegions[i].OutImage
            /\ Areas[a].Width > 0 /\ Areas[a].Height > 0

\* region id stands in the chain of nodes where insertOutArea puts it, and P
\* is its predecessor: P.Next is id, every region before id is at most as
\* high as id and the region after id, if any, is strictly higher
InsertedAt(nodes, id, P) ==
    LET ch == OutAreaChain(nodes, nodes[0].Next)
    IN  /\ nodes[P].Next = id
        /\ \E i \in IndexOf(ch) :
            /\ ch[i].ptr = id
            /\ \A j \in 1..(i - 1) : ch[j].Height <= ch[i].Height
            /\ i < Len(ch) => ch[i + 1].Height > ch[i].Height
            /\ P = IF i = 1 THEN 0 ELSE ch[i - 1].ptr
\* the children frame d has in the chain: NewOutAreas[ 0 ] and [ 1 ]
ChildrenInChain(d) ==
    {k \in {0, 1} : \E i \in IndexOf(FreeRegions) : FreeRegions[i].ptr = NewOutAreaPtr(d, k)}
\* the chain without the child frame d inserted last
WithoutLastChild(d) ==
    LET P == Stack[d].PrevNewOutAreas[Stack[d].c]
    IN  [OutAreaNodes EXCEPT ![P].Next = OutAreaNodes[OutAreaNodes[P].Next].Next]

\* C23: at every search step the free-region chain is in non-decreasing
\* Height; insertOutArea links the new region after every region whose
\* Height is <= its own and before the first strictly higher one, and the
\* predecessor P it returns has P.Next = the new region.  This is checked
\* where a region has just been inserted: the region of a new image at line
\* 1540, and the children of the parent frame when a frame starts.
C23_SortedByHeight ==
    (Searching /\ pc \in SearchPcs) =>
        /\ \A i \in 1..(Len(FreeRegions) - 1) :
                FreeRegions[i].Height <= FreeRegions[i + 1].Height
        /\ (pc = "Line1540" /\ s.WasOutImageAdded)
                => InsertedAt(OutAreaNodes, OutArea, s.PrevOutArea)
        /\ (pc = "CodeLoc1" /\ Depth > 0) =>
            LET d == Depth - 1
                st == Stack[d]
            IN  /\ st.c = Cardinality(ChildrenInChain(d))
                /\ st.c = 1 =>
                    \A k \in ChildrenInChain(d) :
                        InsertedAt(OutAreaNodes, NewOutAreaPtr(d, k), st.PrevNewOutAreas[1])
                /\ st.c = 2 =>
                    /\ InsertedAt(OutAreaNodes, NewOutAreaPtr(d, 1), st.PrevNewOutAreas[2])
                    /\ InsertedAt(WithoutLastChild(d), NewOutAreaPtr(d, 0),
                                  st.PrevNewOutAreas[1])

\* a frame starts with both children of its parent in the chain, the second
\* one inserted behind a region of its own Height
C23_Witness ==
    /\ Searching /\ pc = "CodeLoc1" /\ Depth > 0
    /\ Stack[Depth - 1].c = 2
    /\ Stack[Depth - 1].PrevNewOutAreas[2] # 0
    /\ OutAreaNodes[Stack[Depth - 1].PrevNewOutAreas[2]].Height
            = OutAreaNodes[NewOutAreaPtr(Depth - 1, 1)].Height
    /\ Len(FreeRegions) >= 3

\* a step of fitUnfittedAreas that makes a new output image
ImageSynthesized == pc \in SearchPcs /\ fd'.OutImageCount > fd.OutImageCount
\* a step that ends, in the current frame, a trial for which an image was made
SynthesizedTrialEnds ==
    /\ pc \in {"Line1540", "CodeLoc2", "CodeLoc3"}
    /\ pc' \in {"OutAreaLoop", "Reattach"}
    /\ Depth' = Depth
    /\ Stack'[Depth].WasOutImageAdded
C24_Step ==
    /\ ImageSynthesized =>
        /\ pc = "OutAreaLoop" /\ OutArea = NULL
        /\ s.OutAreasTried = 0
        /\ fd.OutImageCount < fd.BestOutImageCount
        /\ fd'.OutImageCount = fd.OutImageCount + 1
        /\ fd'.OutImages[fd'.OutImageCount] = COutImage(0, 0, 0)
        /\ SubSeq(fd'.OutImages, 1, fd.OutImageCount) = CurrentOutImages
        /\ OutArea' = NewOutAreaPtr(Depth, 2)
        /\ LET r == OutAreaNodes'[OutArea']
           IN  /\ r.OutImage = fd.OutImageCount /\ r.x = 0 /\ r.y = 0
               /\ r.Width = Max(Areas[Area].Width, aMaxOutImageWidth)
               /\ r.Height = Max(Areas[Area].Height, aMaxOutImageHeight)
        /\ Stack'[Depth].WasOutImageAdded
        /\ pc' = "Line1540" /\ Depth' = Depth /\ Area' = Area
    /\ (pc = "Line1540" /\ Depth' = Depth /\ pc' = "OutAreaLoop") => ~s.WasOutImageAdded
    /\ SynthesizedTrialEnds =>
        /\ pc' = "Reattach"
        /\ fd'.OutImageCount = fd.OutImageCount - 1
        /\ Area' = Area

\* C24: a step makes a new output image for area A only at the end of the
\* walk over the chain (OutArea = NULL), with OutAreasTried = 0 and the image
\* count below the local best image count; the image starts 0 x 0 x 0 and its
\* free region is max(A.Width, aMaxOutImageWidth) x max(A.Height,
\* aMaxOutImageHeight) at (0, 0); and when the trial of that region ends the
\* frame leaves the region loop for A (line 1791), so it was the last option.
C24_NewImageLast == [][C24_Step]_vars

\* the trial of a region made for an area wider than aMaxOutImageWidth has
\* ended: the frame is leaving the region loop and the image is gone
C24_Witness ==
    /\ Searching /\ pc = "Reattach"
    /\ s.WasOutImageAdded
    /\ OutArea = NewOutAreaPtr(Depth, 2)
    /\ Areas[Area].Width > aMaxOutImageWidth
    /\ OutAreaNodes[OutArea].Width = Areas[Area].Width
    /\ OutAreaNodes[OutArea].OutImage = fd.OutImageCount
    /\ fd.OutImageCount < fd.BestOutImageCount
    /\ \A i \in IndexOf(FreeRegions) : FreeRegions[i].ptr # OutArea

\* the call of checkAreaFitAgainstBest at lines 1552-1556 is about to be made
AtCheck == Searching /\ AtTrial /\ Fits(TrialItem)
\* the image the call is about, and what the placement would make of it
CheckImage == fd.OutImages[OutAreaNodes[OutArea].OutImage + 1]
CheckWidth == Max(OutAreaNodes[OutArea].x + Areas[Area].Width, CheckImage.Width)
CheckHeight == Max(OutAreaNodes[OutArea].y + Areas[Area].Height, CheckImage.Height)
CheckGrows == CheckWidth > CheckImage.Width \/ CheckHeight > CheckImage.Height
CheckOutSize == fd.OutSize + CheckWidth * CheckHeight - CheckImage.Size
CheckOverSize == CheckGrows /\ CheckWidth * CheckHeight > MaxOutImageSize
CheckNotBetter == CheckGrows /\ ~CheckOverSize /\ CheckOutSize >= fd.BestOutSize
\* the trial ends in the step, the call having returned false: nothing is
\* placed or pushed, the image and fd.OutSize are as before
CheckRefused ==
    /\ Depth' = Depth /\ pc' \in {"OutAreaLoop", "Reattach"}
    /\ Areas' = Areas /\ Globals' = Globals
    /\ fd'.OutImages = fd.OutImages /\ fd'.OutSize = fd.OutSize
C25_Step ==
    AtCheck =>
        /\ TrialCheck.ret = (~CheckOverSize /\ ~CheckNotBetter)
        /\ CheckOverSize =>
            /\ CheckRefused
            /\ Stack'[Depth].OutAreasTried = s.OutAreasTried
        /\ CheckNotBetter =>
            /\ CheckRefused
            /\ Stack'[Depth].OutAreasTried = s.OutAreasTried + 1
        /\ (~CheckOverSize /\ ~CheckNotBetter) =>
            /\ Stack'[Depth].OutAreasTried = s.OutAreasTried + 1
            /\ Areas'[Area].OutImage = OutAreaNodes[OutArea].OutImage
            /\ Areas'[Area].OutX = OutAreaNodes[OutArea].x
            /\ Areas'[Area].OutY = OutAreaNodes[OutArea].y
            /\ Stack'[Depth].DoOutImageRestore = CheckGrows
            /\ CheckGrows =>
                /\ Stack'[Depth].OutImageSave = CheckImage
                /\ Stack'[Depth].OutSizeSave = fd.OutSize
                /\ TrialCheck.fd.OutSize = CheckOutSize
                /\ TrialCheck.fd.OutImages =
                        [fd.OutImages EXCEPT ![OutAreaNodes[OutArea].OutImage + 1] =
                            COutImage(CheckWidth, CheckHeight, CheckWidth * CheckHeight)]
            /\ ~CheckGrows =>
                /\ Stack'[Depth].OutImageSave = s.OutImageSave
                /\ Stack'[Depth].OutSizeSave = s.OutSizeSave
                /\ TrialCheck.fd = fd
            \* areas remain: the frame is pushed on the committed state
            /\ Depth' # Depth => fd' = TrialCheck.fd

\* C25: checkAreaFitAgainstBest, at every call of lines 1552-1556: if the
\* placement would grow the image to a Size above MaxOutImageSize it returns
\* false and OutAreasTried, the image and fd.OutSize stay as they are; if the
\* grown summed size would be >= fd.BestOutSize it returns false, adds one to
\* OutAreasTried and leaves the image and fd.OutSize; otherwise it returns
\* true, adds one to OutAreasTried and, only when a dimension grew, saves the
\* old image and fd.OutSize and commits the new Width, Height, Size and
\* fd.OutSize.
C25_CheckAreaFit == [][C25_Step]_vars

\* a frame was pushed after a call that grew an image which was not empty
\* and whose region was not the first one tried
C25_Witness ==
    /\ Searching /\ pc = "CodeLoc1" /\ Depth > 0
    /\ Stack[Depth - 1].Area # Stack[Depth].Area
    /\ Stack[Depth].PrevArea = 0
    /\ Stack[Depth - 1].DoOutImageRestore
    /\ Stack[Depth - 1].OutImageSave.Size > 0
    /\ Stack[Depth - 1].OutAreasTried > 1
    /\ fd.OutSize > Stack[Depth - 1].OutSizeSave
    /\ fd.OutSize < fd.BestOutSize

\* a call is refused for MaxOutImageSize after a region was counted as tried
C25_OverSizeReached == AtCheck /\ CheckOverSize /\ s.OutAreasTried > 0
\* a call is refused because the summed size would not beat the local best
C25_NotBetterReached == AtCheck /\ CheckNotBetter

\* a frame is at the top of its area loop, so the chain holds the children
\* its parent frame inserted and the unfitted chain is the one they were
\* tested against
ChildrenJustInserted == Searching /\ pc = "CodeLoc1" /\ Depth > 0
ParentChildren ==
    {OutAreaNodes[NewOutAreaPtr(Depth - 1, k)] : k \in ChildrenInChain(Depth - 1)}
UnfittedWidths == {Areas[a].Width : a \in RangeOf(UnfittedChain)}
UnfittedHeights == {Areas[a].Height : a \in RangeOf(UnfittedChain)}

\* C26: in both configurations a child region is in the chain only if it is
\* non-empty (Width > 0 and Height > 0), its Width is >= the least Width and
\* its Height >= the least Height of the areas in the unfitted chain; so no
\* zero-width or zero-height region is ever inserted, also when an unfitted
\* area has Width or Height 0.
C26_ChildrenNonEmpty ==
    ChildrenJustInserted =>
        \A c \in ParentChildren :
            /\ c.Width > 0 /\ c.Height > 0
            /\ \E w \in UnfittedWidths : c.Width >= w
            /\ \E h \in UnfittedHeights : c.Height >= h

\* C26, as the code has it: a child region is in the chain only if its Width
\* is >= the least Width and its Height >= the least Height of the areas in
\* the unfitted chain (lines 1644-1645, 1668-1669, 1708-1710, 1733-1735 test
\* nothing else); it is non-empty when every unfitted area is, and can be
\* empty when an unfitted area has Width or Height 0.
C26_ChildrenUsable ==
    ChildrenJustInserted =>
        \A c \in ParentChildren :
            /\ c.Width >= 0 /\ c.Height >= 0
            /\ \A w \in UnfittedWidths : (\A v \in UnfittedWidths : w <= v) => c.Width >= w
            /\ \A h \in UnfittedHeights : (\A v \in UnfittedHeights : h <= v) => c.Height >= h
            /\ (\A w \in UnfittedWidths : w > 0) => c.Width > 0
            /\ (\A h \in UnfittedHeights : h > 0) => c.Height > 0

\* a frame starts with two children of its parent in the chain, one of them
\* of Width 0, inserted because an unfitted area has Width 0
C26_Witness ==
    /\ ChildrenJustInserted
    /\ Cardinality(ChildrenInChain(Depth - 1)) = 2
    /\ \E c \in ParentChildren : c.Width = 0 /\ c.Height > 0
    /\ \E c \in ParentChildren : c.Width > 0 /\ c.Height > 0
    /\ 0 \in UnfittedWidths

\* the host region R and the placed area A of the parent frame, and the
\* configuration it is trying (CodeLoc 2: configuration 1, 3: configuration 2)
HostR == OutAreaNodes[Stack[Depth - 1].OutArea]
PlacedA == Areas[Stack[Depth - 1].Area]
ParentConfig == IF Stack[Depth - 1].CodeLoc = 2 THEN 1 ELSE 2
\* a rectangle on an output image
Rect(oi, x, y, w, h) == [OutImage |-> oi, x |-> x, y |-> y, Width |-> w, Height |-> h]
RectOf(r) == Rect(r.OutImage, r.x, r.y, r.Width, r.Height)
\* the children as the split rule gives them
RightChild(cfg) ==
    Rect(HostR.OutImage, HostR.x + PlacedA.Width, HostR.y,
         HostR.Width - PlacedA.Width, IF cfg = 1 THEN HostR.Height ELSE PlacedA.Height)
BottomChild(cfg) ==
    Rect(HostR.OutImage, HostR.x, HostR.y + PlacedA.Height,
         IF cfg = 1 THEN PlacedA.Width ELSE HostR.Width, HostR.Height - PlacedA.Height)
PlacedRect ==
    Rect(PlacedA.OutImage, PlacedA.OutX, PlacedA.OutY, PlacedA.Width, PlacedA.Height)
RectsOverlap(p, q) ==
    /\ p.Width > 0 /\ p.Height > 0 /\ q.Width > 0 /\ q.Height > 0
    /\ p.x < q.x + q.Width /\ q.x < p.x + p.Width
    /\ p.y < q.y + q.Height /\ q.y < p.y + p.Height
RectInside(p, q) ==
    /\ p.OutImage = q.OutImage /\ p.Width >= 0 /\ p.Height >= 0
    /\ p.x >= q.x /\ p.y >= q.y
    /\ p.x + p.Width <= q.x + q.Width /\ p.y + p.Height <= q.y + q.Height
\* three rectangles tile R: inside R, no two share a pixel, areas add up
Tile(a, b, c, R) ==
    /\ RectInside(a, R) /\ RectInside(b, R) /\ RectInside(c, R)
    /\ ~RectsOverlap(a, b) /\ ~RectsOverlap(a, c) /\ ~RectsOverlap(b, c)
    /\ a.Width * a.Height + b.Width * b.Height + c.Width * c.Height
            = R.Width * R.Height

\* C27: area A placed at the origin of host region R.  Configuration 1: the
\* right child is (R.Width - A.Width) x R.Height at (R.x + A.Width, R.y), the
\* bottom child A.Width x (R.Height - A.Height) at (R.x, R.y + A.Height).
\* Configuration 2: the right child is (R.Width - A.Width) x A.Height at
\* (R.x + A.Width, R.y), the bottom child R.Width x (R.Height - A.Height) at
\* (R.x, R.y + A.Height).  In each configuration A and the two children tile
\* R exactly, and R is out of the chain while its children are in it.
C27_SplitGeometry ==
    ChildrenJustInserted =>
        /\ PlacedRect = Rect(HostR.OutImage, HostR.x, HostR.y,
                             PlacedA.Width, PlacedA.Height)
        /\ 0 \in ChildrenInChain(Depth - 1) =>
                RectOf(OutAreaNodes[NewOutAreaPtr(Depth - 1, 0)]) = RightChild(ParentConfig)
        /\ 1 \in ChildrenInChain(Depth - 1) =>
                RectOf(OutAreaNodes[NewOutAreaPtr(Depth - 1, 1)]) = BottomChild(ParentConfig)
        /\ Tile(PlacedRect, RightChild(ParentConfig), BottomChild(ParentConfig),
                RectOf(HostR))
        /\ \A i \in IndexOf(FreeRegions) : FreeRegions[i].ptr # Stack[Depth - 1].OutArea

\* a frame starts while its parent tries configuration 2 with both children,
\* none of them empty, in the chain
C27_Witness ==
    /\ ChildrenJustInserted
    /\ ParentConfig = 2
    /\ ChildrenInChain(Depth - 1) = {0, 1}
    /\ PlacedA.Width > 0 /\ PlacedA.Height > 0
    /\ RightChild(2).Width > 0 /\ BottomChild(2).Height > 0
    /\ RightChild(2).Height < HostR.Height

\* what a publication writes
SharedBest(g) ==
    <<g.BestOutSize, g.BestOutImageCount, g.BestFittedAreas, g.BestOutImages>>
\* a step of fitUnfittedAreas that publishes
Published == pc \in SearchPcs /\ SharedBest(Globals') # SharedBest(Globals)
\* the call of checkAreaFitAgainstBest accepts the last unfitted area: a
\* complete placement is reached, with the packing state TrialCheck.fd
CompletePlacement == AtCheck /\ TrialCheck.ret /\ AreaNext[0] = NULL
C28_Step ==
    /\ Published =>
        /\ CompletePlacement
        /\ TrialCheck.fd.OutSize < Globals.BestOutSize
        /\ TrialCheck.fd.OutImageCount <= Globals.BestOutImageCount
        /\ Globals'.BestOutSize = TrialCheck.fd.OutSize
        /\ Globals'.BestOutImageCount = TrialCheck.fd.OutImageCount
        /\ Globals'.BestOutSize < Globals.BestOutSize
    /\ pc \in SearchPcs =>
        /\ Globals'.BestOutSize <= Globals.BestOutSize
        /\ Globals'.BestOutImageCount <= Globals.BestOutImageCount
    /\ CompletePlacement =>
        /\ Globals'.BestOutSize <= TrialCheck.fd.OutSize
        /\ Published <=> IsNewBest(TrialCheck.fd, Globals)

\* C28: a complete placement is published only if its summed size is
\* strictly below Globals.BestOutSize and its image count is <=
\* Globals.BestOutImageCount; so Globals.BestOutSize strictly decreases at
\* every publication and Globals.BestOutImageCount never increases; after
\* every complete placement the search reaches, Globals.BestOutSize is at
\* most its summed size, and what a successful search returns is the shared
\* best: the smallest summed size among the complete placements reached.
C28_PublishBest ==
    /\ [][C28_Step]_vars
    /\ []((Searching /\ Success) =>
            /\ OutImages = Globals.BestOutImages
            /\ SumSizes(OutImages) = Globals.BestOutSize)

\* a placement on several images was published, and a complete placement
\* with a smaller summed size is reached
C28_Witness ==
    /\ CompletePlacement
    /\ Globals.BestOutSize # NoBestGlobal
    /\ Globals.BestOutImageCount > 1
    /\ TrialCheck.fd.OutSize < Globals.BestOutSize
    /\ TrialCheck.fd.OutImageCount <= Globals.BestOutImageCount

\* the pointers of a chain, in order
Ptrs(ch) == [i \in IndexOf(ch) |-> ch[i].ptr]
\* sequence q without the element e
RECURSIVE Without(_, _)
Without(q, e) ==
    IF q = <<>> THEN <<>>
    ELSE IF Head(q) = e THEN Without(Tail(q), e)
    ELSE <<Head(q)>> \o Without(Tail(q), e)
\* a step that pushes the frame for configuration 2 of the current trial
Config2Pushed == pc \in SearchPcs /\ Depth' = Depth + 1 /\ Stack'[Depth].CodeLoc = 3
\* a step that pushes the frame for configuration 1
Config1Pushed == pc \in SearchPcs /\ Depth' = Depth + 1 /\ Stack'[Depth].CodeLoc = 2
\* the chain after the step, without the children the frame has just inserted
ChainBelowChildren ==
    LET nodes == RemoveChildren(OutAreaNodes', Stack'[Depth].PrevNewOutAreas,
                                Stack'[Depth].c)
    IN  Ptrs(OutAreaChain(nodes, nodes[0].Next))
\* the chain the trial began with, without its host region
ChainWithoutHost == Without(Ptrs(trialStart'[Depth].OutAreas), OutArea)
\* the children of the current frame that are in the chain after the step
ChildrenAfterStep ==
    {k \in {0, 1} : \E i \in 1..Len(OutAreaChain(OutAreaNodes', OutAreaNodes'[0].Next)) :
        OutAreaChain(OutAreaNodes', OutAreaNodes'[0].Next)[i].ptr = NewOutAreaPtr(Depth, k)}
C29_Step ==
    /\ Config1Pushed =>
        /\ AtCheck
        /\ ChainBelowChildren = ChainWithoutHost
        /\ Cardinality(ChildrenAfterStep) = Stack'[Depth].c
        /\ Stack'[Depth].c1 = Stack'[Depth].c
    /\ Config2Pushed =>
        \* the frame of configuration 1 has popped
        /\ pc = "CodeLoc2" /\ s.CodeLoc = 2
        /\ Area = s.Area /\ OutArea = s.OutArea
        /\ fd.OutSize < fd.BestOutSize
        /\ fd.OutImageCount <= fd.BestOutImageCount
        /\ fd' = fd
        \* what the chain holds besides the trial's other regions are the
        \* children of configuration 2
        /\ ChainBelowChildren = ChainWithoutHost
        /\ Cardinality(ChildrenAfterStep) = Stack'[Depth].c
        /\ 0 \in ChildrenAfterStep =>
            /\ OutAreaNodes'[NewOutAreaPtr(Depth, 0)].Height = Areas[Area].Height
            /\ Areas[Area].Height >= s.MinAreaHeight
        /\ 1 \in ChildrenAfterStep =>
            /\ OutAreaNodes'[NewOutAreaPtr(Depth, 1)].Width = OutAreaNodes[OutArea].Width
            /\ OutAreaNodes[OutArea].Width >= s.MinAreaWidth
        /\ Stack'[Depth].c1 = s.c1

\* C29: for a placed area the frame for configuration 2 is pushed only from
\* CodeLoc2, after the frame for configuration 1 has popped and its children
\* are unlinked, and only if at that moment fd.OutSize < fd.BestOutSize and
\* fd.OutImageCount <= fd.BestOutImageCount; the chain then holds the other
\* regions of the trial and the children of configuration 2 only, so the
\* children of the two configurations are never in the chain together.
C29_Config2AfterConfig1 == [][C29_Step]_vars

\* a frame starts for configuration 2 with two children in the chain, after
\* configuration 1 had its own two
C29_Witness ==
    /\ ChildrenJustInserted
    /\ ParentConfig = 2
    /\ Stack[Depth].PrevArea = 0
    /\ Stack[Depth - 1].c1 = 2 /\ Stack[Depth - 1].c = 2
    /\ ChildrenInChain(Depth - 1) = {0, 1}
    /\ OutAreaNodes[NewOutAreaPtr(Depth - 1, 0)].Height < HostR.Height
    /\ OutAreaNodes[NewOutAreaPtr(Depth - 1, 1)].Width > PlacedA.Width

\* a step in which fitUnfittedAreas returns
SearchReturns == pc \in SearchPcs /\ pc' = "Returned"
C30_Step ==
    SearchReturns =>
        \/ /\ pc = "CodeLoc1"
           /\ FitCallsLeft = 0 /\ Globals.FitCallsLeft = 0
           /\ attempts = FitCallsLimit
        \/ /\ pc = "Unwind" /\ Depth = 0
           /\ s.Area = NULL \/ BoundsExceeded(fd)

\* C30: for every FitCallsLimit > 0 and every input, fitUnfittedAreas
\* eventually returns, and it returns either at the refill point of lines
\* 1460-1479 with the local and the shared budget both zero, or when the
\* area loop of the root frame has ended; no run of pushes, pops and region
\* advances goes on forever.
C30_Terminates ==
    /\ [][C30_Step]_vars
    /\ (pc = "CodeLoc1" /\ FitCallsLimit > 0) ~> Done

\* a search over MaxAreas areas that went MaxAreas frames deep has returned
\* with the root frame exhausted and budget left
C30_Witness ==
    /\ Done /\ Searching
    /\ Len(AreasIn) = MaxAreas
    /\ trialStart[MaxAreas - 1] # NoTrial
    /\ Depth = 0
    /\ Stack[0].Area = NULL
    /\ Globals.FitCallsLeft > 0
    /\ attempts > MaxAreas

\* ---------------------------------------------------------------------------
\* fitUnfittedAreas has returned to fitAreas
SearchReturned == Searching /\ pc = "Returned"

\* C31: when fitUnfittedAreas returns, by the return at the refill point or
\* by the end of the root frame, the Fitter's local FitCallsLeft is 0 and
\* Globals.FitCallsLeft is FitCallsLimit minus the placement attempts made:
\* the local budget that was left went back to the shared one.
C31_BudgetReturned ==
    SearchReturned =>
        /\ FitCallsLeft = 0
        /\ Globals.FitCallsLeft = FitCallsLimit - attempts

\* the root frame ended with local budget left, which is now in the shared one:
\* the one refill took a budget of MaxFitCalls whole, one attempt was not made
C31_Witness ==
    /\ SearchReturned
    /\ FitCallsLimit = MaxFitCalls
    /\ attempts = MaxFitCalls - 1
    /\ Globals.FitCallsLeft = 1

\* the search returned from the refill point, nothing left anywhere
C31_EmptyReturnReached ==
    /\ SearchReturned
    /\ FitCallsLimit > 0
    /\ attempts = FitCallsLimit
    /\ Depth > 0
    /\ Globals.FitCallsLeft = 0

\* ---------------------------------------------------------------------------
\* C33: for n >= 2 input areas, positive limits and MinOutImageCount >= 1,
\* fitAreas returns true if and only if FitCallsLimit >= n; the first complete
\* placement is reached by the first descent, with exactly n attempts made.
C33_Step ==
    /\ (Searching /\ Done') =>
            (result' = TRUE <=> FitCallsLimit >= Len(AreasIn))
    /\ (Searching /\ Published /\ Globals.BestOutSize = NoBestGlobal) =>
            attempts = Len(AreasIn)
C33_EnoughBudget == [][C33_Step]_vars

\* a call on MaxAreas areas with a budget of MaxAreas attempts succeeded; the
\* narrowest limits made the descent synthesize an image for every area but
\* the first
C33_Witness ==
    /\ Success /\ Searching
    /\ Len(AreasIn) = MaxAreas /\ FitCallsLimit = MaxAreas
    /\ aMaxOutImageWidth = 1 /\ aMaxOutImageHeight = 1
    /\ Len(OutImages) = MaxAreas
    /\ attempts = MaxAreas

\* a call with one attempt too few failed after spending them all
C33_ShortBudgetReached ==
    /\ Failure /\ Searching
    /\ Len(AreasIn) = MaxAreas /\ FitCallsLimit = MaxAreas - 1
    /\ attempts = FitCallsLimit

\* ---------------------------------------------------------------------------
\* two regions of the chain that lie in one output image and share a pixel
RegionsCollide(ch) ==
    \E i, j \in IndexOf(ch) :
        /\ i < j
        /\ ch[i].OutImage = ch[j].OutImage
        /\ RectsOverlap(ch[i], ch[j])

\* C34: at every search step the free regions of the chain that belong to
\* the same output image are pairwise non-overlapping: the children of a
\* configuration are disjoint from each other and stand in for their host.
C34_RegionsDisjoint ==
    (Searching /\ pc \in SearchPcs) => ~RegionsCollide(FreeRegions)

\* the chain holds both children of a configuration-2 split, non-empty and
\* in one output image, beside the region of another image
C34_Witness ==
    /\ ChildrenJustInserted
    /\ ParentConfig = 2
    /\ ChildrenInChain(Depth - 1) = {0, 1}
    /\ \A r \in ParentChildren : r.Width > 0 /\ r.Height > 0
    /\ Len(FreeRegions) >= 3

\* ---------------------------------------------------------------------------
\* the frames of the evaluation stack, and the areas out of the unfitted chain
StackFrames == DOMAIN Stack
DetachedCount == Len(Areas) - Len(UnfittedChain)
C35_Step ==
    (Searching /\ pc \in SearchPcs) =>
        /\ Depth' > Depth => Depth' = Depth + 1 /\ AreaNext[0] # NULL
        /\ Depth' < Depth => Depth' = Depth - 1 /\ Depth > 0

\* C35: the evaluation stack never overflows: with n input areas it holds n
\* frames and Depth stays within 0..n-1 after the initial push; a frame is
\* pushed only while the unfitted chain is non-empty, exactly Depth+1 areas
\* are out of the chain while frame Depth is trying a region (Depth areas
\* otherwise), and a pop never takes Depth below 0.
C35_StackBounded ==
    /\ [][C35_Step]_vars
    /\ [](Searching =>
            /\ StackFrames = 0..(Len(Areas) - 1)
            /\ Depth \in StackFrames
            /\ pc \in SearchPcs =>
                  DetachedCount = Depth + (IF AreaDetachedHere THEN 1 ELSE 0))

\* the top frame of the stack is trying a region for the last of MaxAreas
\* areas, after a pop had taken the search back to the root frame
C35_Witness ==
    /\ Searching /\ pc = "Line1540"
    /\ Len(Areas) = MaxAreas
    /\ Depth = MaxAreas - 1
    /\ DetachedCount = MaxAreas
    /\ Stack[0].CodeLoc = 3

\* ---------------------------------------------------------------------------
\* the refill point, with the local budget used up (line 1460 holds)
AtRefill ==
    /\ Searching /\ pc = "CodeLoc1"
    /\ s.Area # NULL /\ ~BoundsExceeded(fd)
    /\ FitCallsLeft = 0
\* lines 1467-1468: the local bounds are behind the shared ones
LocalBoundsLag ==
    \/ fd.BestOutSize > Globals.BestOutSize
    \/ fd.BestOutImageCount > Globals.BestOutImageCount

\* C36: with the one Fitter fitAreas creates the local bounds never lag
\* behind Globals: fd.BestOutSize <= Globals.BestOutSize and
\* fd.OutImageCount <= fd.BestOutImageCount at every step; so every complete
\* placement the search reaches is strictly better than the shared best (and
\* is published), and neither refresh of the local bounds from Globals (at
\* the refill point, in the terminal case) is ever taken.
C36_LocalBounds ==
    /\ (Searching /\ pc \in SearchPcs \cup {"Returned"}) =>
            /\ fd.BestOutSize <= Globals.BestOutSize
            /\ fd.OutImageCount <= fd.BestOutImageCount
            /\ ~LocalBoundsLag
    /\ CompletePlacement => IsNewBest(TrialCheck.fd, Globals)

\* a complete placement is reached after an earlier one was published, with
\* the local bounds equal to the shared ones
C36_Witness ==
    /\ CompletePlacement
    /\ Globals.BestOutSize # NoBestGlobal
    /\ fd.BestOutSize = Globals.BestOutSize
    /\ fd.BestOutImageCount = Globals.BestOutImageCount
    /\ fd.OutImageCount = fd.BestOutImageCount

\* the refill point is reached after a publication
C36_RefillAfterBestReached == AtRefill /\ Globals.BestOutSize # NoBestGlobal

\* ---------------------------------------------------------------------------
\* two Fitters run on one Globals
TwoFitters == others # <<>> /\ pc # "fitAreas"
\* a Fitter is between the load and the store of a refill
InRefill(p) == p \in {"Line1484", "Line1489"}

====
